---------------------------- MODULE Spec2Model ----------------------------
(***************************************************************************)
(* Model of tools/lsp/preview/ui.rs: the property table differ             *)
(* (update_grouped_properties), the element state machine                  *)
(* (ui_set_properties), the runtime table update                           *)
(* (ui_set_runtime_properties::update_model) and the runtime value         *)
(* flattener (map_value_and_type).                                         *)
(*                                                                         *)
(* Names of rows are natural numbers standing for their rank in string     *)
(* order ("aaa" < "aab" < ...): the code only compares names with <, > and *)
(* ==.  Indices are 0-based as in the code; a TLA+ sequence s holds the    *)
(* row of index i at s[i + 1].                                             *)
(***************************************************************************)
EXTENDS Integers, Sequences, FiniteSets, TLC

\* Bounds of the explored inputs.
MaxName == 3
MaxRuns == 2
MaxArrayLen == 2
MaxCalls == 3
MaxProperties == 2
MaxSigns == 2

Names == 1..MaxName
TypeNames == {"T1", "T2"}
Codes == {"A", "B"}

VARIABLES diff, c0, run, mp, rt, ui, sv, tbl

vars == <<diff, c0, run, mp, rt, ui, sv, tbl>>

\* The part of the state each specification leaves alone.
DiffIdle == diff = [pc |-> "idle"] /\ c0 = <<>> /\ run = 0
MapIdle == mp = [pc |-> "idle"]
RuntimeIdle == rt = [pc |-> "idle"]
UiIdle == ui = [pc |-> "idle"]
SimplifyIdle == sv = [pc |-> "idle"]
TableIdle == tbl = [pc |-> "idle"]

-----------------------------------------------------------------------------
(* Rows of a property group: PropertyInformation with its PropertyValue.    *)
(* obj is the identity of the row object held by the VecModel: <<"c", i>>   *)
(* for the i-th row the current model was built with, <<"n", i>> for a copy *)
(* of the i-th row of the next model.                                       *)

PropertyInformation(nm, ty, cd, ob) ==
    [name |-> nm, type_name |-> ty, code |-> cd, obj |-> ob]

\* Mutant: compares the row objects as well as their code.
is_equal_value_ByObject(c, n) == c.code = n.code /\ c.obj = n.obj

is_equal_value(c, n) == c.code = n.code

is_equal_property(c, n) ==
    c.name = n.name /\ c.type_name = n.type_name /\ is_equal_value(c, n)

\* VecModel::row_data: None (here: a panic of the following unwrap) when out of range.
HasRow(m, i) == i >= 0 /\ i < Len(m)
RowData(m, i) == m[i + 1]

\* Vec::insert at a 0-based index
VecInsert(m, i, r) == SubSeq(m, 1, i) \o <<r>> \o SubSeq(m, i + 1, Len(m))
\* Vec::remove at a 0-based index
VecRemove(m, i) == SubSeq(m, 1, i) \o SubSeq(m, i + 2, Len(m))
\* VecModel::set_row_data
VecSet(m, i, r) == [m EXCEPT ![i + 1] = r]

-----------------------------------------------------------------------------
(* update_grouped_properties: the scan loop, one operator per match arm.    *)
(* st.c_it and st.n_it are the positions of the two model iterators; cp/np  *)
(* are the rows they returned last (None once the position is past the end).*)

\* An entry of to_do.  name is not in the code: it records the name of the row
\* the scan issued the edit for.
Op(kind, c, n, nm) == [op |-> kind, c |-> c, n |-> n, name |-> nm]

DiffStart(cvg, nvg) ==
    [pc |-> "scan", cvg |-> cvg, nvg |-> nvg, to_do |-> <<>>,
     c_it |-> 0, n_it |-> 0, c_index |-> 0, n_index |-> 0,
     k |-> 0, iters |-> 0, applied |-> <<>>, touched |-> {}]

CpSome(st) == HasRow(st.cvg, st.c_it)
NpSome(st) == HasRow(st.nvg, st.n_it)
Cp(st) == RowData(st.cvg, st.c_it)
Np(st) == RowData(st.nvg, st.n_it)

\* (None, None) => break
ArmBreak(st) == [st EXCEPT !.pc = "apply"]

\* Mutant: the remove arm advances c_index.
ArmRemove_Advance(st) ==
    [st EXCEPT !.to_do = Append(@, Op("Remove", st.c_index, 0, Cp(st).name)),
               !.c_index = @ + 1,
               !.c_it = @ + 1,
               !.iters = @ + 1]

\* (Some(_), None), and (Some(c), Some(n)) with c.name < n.name
ArmRemove(st) ==
    [st EXCEPT !.to_do = Append(@, Op("Remove", st.c_index, 0, Cp(st).name)),
               !.c_it = @ + 1,
               !.iters = @ + 1]

\* Mutant: the insert arm forgets np = n_it.next().
ArmInsert_NoNext(st) ==
    [st EXCEPT !.to_do = Append(@, Op("Insert", st.c_index, st.n_index, Np(st).name)),
               !.c_index = @ + 1,
               !.n_index = @ + 1,
               !.iters = @ + 1]

\* Mutant: the insert arm forgets to advance c_index.
ArmInsert_NoAdvance(st) ==
    [st EXCEPT !.to_do = Append(@, Op("Insert", st.c_index, st.n_index, Np(st).name)),
               !.n_index = @ + 1,
               !.n_it = @ + 1,
               !.iters = @ + 1]

\* (Some(c), Some(n)) with c.name > n.name
ArmInsert(st) ==
    [st EXCEPT !.to_do = Append(@, Op("Insert", st.c_index, st.n_index, Np(st).name)),
               !.c_index = @ + 1,
               !.n_index = @ + 1,
               !.n_it = @ + 1,
               !.iters = @ + 1]

\* Mutant: rows of equal name are copied without comparing them.
ArmEqual_AlwaysCopy(st) ==
    [st EXCEPT !.to_do = Append(@, Op("Copy", st.c_index, st.n_index, Cp(st).name)),
               !.c_index = @ + 1,
               !.n_index = @ + 1,
               !.c_it = @ + 1,
               !.n_it = @ + 1,
               !.iters = @ + 1]

\* Mutant: a changed row is replaced by a removal and an insertion.
ArmEqual_RemoveInsert(st) ==
    [st EXCEPT !.to_do = IF ~is_equal_property(Cp(st), Np(st))
                         THEN @ \o << Op("Remove", st.c_index, 0, Cp(st).name),
                                      Op("Insert", st.c_index, st.n_index, Np(st).name) >>
                         ELSE @,
               !.c_index = @ + 1,
               !.n_index = @ + 1,
               !.c_it = @ + 1,
               !.n_it = @ + 1,
               !.iters = @ + 1]

\* (Some(c), Some(n)) with equal names
ArmEqual(st) ==
    [st EXCEPT !.to_do = IF ~is_equal_property(Cp(st), Np(st))
                         THEN Append(@, Op("Copy", st.c_index, st.n_index, Cp(st).name))
                         ELSE @,
               !.c_index = @ + 1,
               !.n_index = @ + 1,
               !.c_it = @ + 1,
               !.n_it = @ + 1,
               !.iters = @ + 1]

\* Mutant: the push-back arm forgets to advance n_index.
ArmPushBack_NoAdvance(st) ==
    [st EXCEPT !.to_do = Append(@, Op("PushBack", 0, st.n_index, Np(st).name)),
               !.n_it = @ + 1,
               !.iters = @ + 1]

\* (None, Some(_))
ArmPushBack(st) ==
    [st EXCEPT !.to_do = Append(@, Op("PushBack", 0, st.n_index, Np(st).name)),
               !.n_index = @ + 1,
               !.n_it = @ + 1,
               !.iters = @ + 1]

ScanStep(st) ==
    CASE ~CpSome(st) /\ ~NpSome(st) -> ArmBreak(st)
      [] CpSome(st) /\ ~NpSome(st) -> ArmRemove(st)
      [] ~CpSome(st) /\ NpSome(st) -> ArmPushBack(st)
      [] OTHER -> IF Cp(st).name < Np(st).name THEN ArmRemove(st)
                  ELSE IF Cp(st).name > Np(st).name THEN ArmInsert(st)
                  ELSE ArmEqual(st)

-----------------------------------------------------------------------------
(* update_grouped_properties: the loop that replays to_do on cvg.  st.k is  *)
(* the number of edits replayed.  applied logs each edit with the name of   *)
(* the row it affects, touched the row objects it overwrote or removed.     *)

Panic(st) == [st EXCEPT !.pc = "panic"]

Logged(st, kind, row) ==
    Append(st.applied, [op |-> kind, name |-> row.name])

ApplyInsert(st, o) ==
    IF ~HasRow(st.nvg, o.n) \/ o.c > Len(st.cvg) THEN Panic(st)
    ELSE [st EXCEPT !.cvg = VecInsert(@, o.c, RowData(st.nvg, o.n)),
                    !.applied = Logged(st, "Insert", RowData(st.nvg, o.n)),
                    !.k = @ + 1]

ApplyCopy(st, o) ==
    IF ~HasRow(st.nvg, o.n) THEN Panic(st)
    ELSE IF ~HasRow(st.cvg, o.c)
    THEN [st EXCEPT !.applied = Append(@, [op |-> "Dropped", name |-> 0]),
                    !.k = @ + 1]
    ELSE [st EXCEPT !.cvg = VecSet(@, o.c, RowData(st.nvg, o.n)),
                    !.applied = Logged(st, "Copy", RowData(st.cvg, o.c)),
                    !.touched = @ \cup {RowData(st.cvg, o.c).obj},
                    !.k = @ + 1]

ApplyPushBack(st, o) ==
    IF ~HasRow(st.nvg, o.n) THEN Panic(st)
    ELSE [st EXCEPT !.cvg = Append(@, RowData(st.nvg, o.n)),
                    !.applied = Logged(st, "PushBack", RowData(st.nvg, o.n)),
                    !.k = @ + 1]

ApplyRemove(st, o) ==
    IF ~HasRow(st.cvg, o.c) THEN Panic(st)
    ELSE [st EXCEPT !.cvg = VecRemove(@, o.c),
                    !.applied = Logged(st, "Remove", RowData(st.cvg, o.c)),
                    !.touched = @ \cup {RowData(st.cvg, o.c).obj},
                    !.k = @ + 1]

ApplyEnd(st) == [st EXCEPT !.pc = "done"]

\* Mutant: the edits are replayed last to first.
NextOp_Reversed(st) == st.to_do[Len(st.to_do) - st.k]

NextOp(st) == st.to_do[st.k + 1]

ApplyStep(st) ==
    IF st.k >= Len(st.to_do) THEN ApplyEnd(st)
    ELSE CASE NextOp(st).op = "Insert" -> ApplyInsert(st, NextOp(st))
           [] NextOp(st).op = "Copy" -> ApplyCopy(st, NextOp(st))
           [] NextOp(st).op = "PushBack" -> ApplyPushBack(st, NextOp(st))
           [] NextOp(st).op = "Remove" -> ApplyRemove(st, NextOp(st))

DiffStep(st) == IF st.pc = "scan" THEN ScanStep(st) ELSE ApplyStep(st)

RECURSIVE DiffRun(_)
DiffRun(st) == IF st.pc \in {"done", "panic"} THEN st ELSE DiffRun(DiffStep(st))

\* The whole call, as its callers see it.
update_grouped_properties(cvg, nvg) == DiffRun(DiffStart(cvg, nvg))

-----------------------------------------------------------------------------
(* Inputs of the differ: every pair of name-sorted rows with unique names   *)
(* over Names, and the input of test_property_date_update.                  *)

RECURSIVE SortedRows(_, _, _, _)
SortedRows(S, f, side, i) ==
    IF S = {} THEN <<>>
    ELSE LET m == CHOOSE x \in S : \A y \in S : x <= y
         IN <<PropertyInformation(m, f[m][1], f[m][2], <<side, i>>)>>
            \o SortedRows(S \ {m}, f, side, i + 1)

SortedInputs(side) ==
    { SortedRows(S, f, side, 0) :
        S \in SUBSET Names, f \in [Names -> TypeNames \X Codes] }

create_test_property(nm, value, ob) == PropertyInformation(nm, "Sometype", value, ob)

\* aaa = 1, aab = 2, abb = 3, bbb = 4, ccc = 5, ddd = 6, eee = 7
TestCurrent ==
    << create_test_property(1, "AAA", <<"c", 0>>),
       create_test_property(4, "BBB", <<"c", 1>>),
       create_test_property(5, "CCC", <<"c", 2>>),
       create_test_property(6, "DDD", <<"c", 3>>),
       create_test_property(7, "EEE", <<"c", 4>>) >>

TestNext ==
    << create_test_property(1, "AAA", <<"n", 0>>),
       create_test_property(2, "AAB", <<"n", 1>>),
       create_test_property(3, "ABB", <<"n", 2>>),
       create_test_property(4, "BBBX", <<"n", 3>>),
       create_test_property(6, "DDD", <<"n", 4>>) >>

InitDiff ==
    /\ \/ \E cvg \in SortedInputs("c"), nvg \in SortedInputs("n") :
             /\ diff = DiffStart(cvg, nvg)
             /\ c0 = cvg
          \/ /\ diff = DiffStart(TestCurrent, TestNext)
             /\ c0 = TestCurrent
    /\ run = 1
    /\ MapIdle /\ RuntimeIdle /\ UiIdle /\ SimplifyIdle /\ TableIdle

Scanning == diff.pc = "scan"
Replaying == diff.pc = "apply" /\ diff.k < Len(diff.to_do)

ScanBreak ==
    /\ Scanning /\ ~CpSome(diff) /\ ~NpSome(diff)
    /\ diff' = ScanStep(diff)
    /\ UNCHANGED <<c0, run, mp, rt, ui, sv, tbl>>

ScanRemoveRest ==
    /\ Scanning /\ CpSome(diff) /\ ~NpSome(diff)
    /\ diff' = ScanStep(diff)
    /\ UNCHANGED <<c0, run, mp, rt, ui, sv, tbl>>

ScanRemove ==
    /\ Scanning /\ CpSome(diff) /\ NpSome(diff) /\ Cp(diff).name < Np(diff).name
    /\ diff' = ScanStep(diff)
    /\ UNCHANGED <<c0, run, mp, rt, ui, sv, tbl>>

ScanInsert ==
    /\ Scanning /\ CpSome(diff) /\ NpSome(diff) /\ Cp(diff).name > Np(diff).name
    /\ diff' = ScanStep(diff)
    /\ UNCHANGED <<c0, run, mp, rt, ui, sv, tbl>>

ScanEqual ==
    /\ Scanning /\ CpSome(diff) /\ NpSome(diff) /\ Cp(diff).name = Np(diff).name
    /\ diff' = ScanStep(diff)
    /\ UNCHANGED <<c0, run, mp, rt, ui, sv, tbl>>

ScanPushBack ==
    /\ Scanning /\ ~CpSome(diff) /\ NpSome(diff)
    /\ diff' = ScanStep(diff)
    /\ UNCHANGED <<c0, run, mp, rt, ui, sv, tbl>>

ReplayInsert ==
    /\ Replaying /\ NextOp(diff).op = "Insert"
    /\ diff' = ApplyStep(diff)
    /\ UNCHANGED <<c0, run, mp, rt, ui, sv, tbl>>

ReplayCopy ==
    /\ Replaying /\ NextOp(diff).op = "Copy"
    /\ diff' = ApplyStep(diff)
    /\ UNCHANGED <<c0, run, mp, rt, ui, sv, tbl>>

ReplayPushBack ==
    /\ Replaying /\ NextOp(diff).op = "PushBack"
    /\ diff' = ApplyStep(diff)
    /\ UNCHANGED <<c0, run, mp, rt, ui, sv, tbl>>

ReplayRemove ==
    /\ Replaying /\ NextOp(diff).op = "Remove"
    /\ diff' = ApplyStep(diff)
    /\ UNCHANGED <<c0, run, mp, rt, ui, sv, tbl>>

ReplayEnd ==
    /\ diff.pc = "apply" /\ diff.k >= Len(diff.to_do)
    /\ diff' = ApplyStep(diff)
    /\ UNCHANGED <<c0, run, mp, rt, ui, sv, tbl>>

\* The caller runs the differ again with the same next model (the same query
\* result arrives once more).
Rerun ==
    /\ diff.pc = "done" /\ run < MaxRuns
    /\ diff' = DiffStart(diff.cvg, diff.nvg)
    /\ c0' = diff.cvg
    /\ run' = run + 1
    /\ UNCHANGED <<mp, rt, ui, sv, tbl>>

NextDiff ==
    \/ ScanBreak \/ ScanRemoveRest \/ ScanRemove \/ ScanInsert \/ ScanEqual
    \/ ScanPushBack \/ ReplayInsert \/ ReplayCopy \/ ReplayPushBack
    \/ ReplayRemove \/ ReplayEnd \/ Rerun

Spec == InitDiff /\ [][NextDiff]_vars

-----------------------------------------------------------------------------
(* Properties of update_grouped_properties.                                 *)

Content(r) == [name |-> r.name, type_name |-> r.type_name, code |-> r.code]
Contents(m) == [i \in DOMAIN m |-> Content(m[i])]
RowNames(m) == { m[i].name : i \in DOMAIN m }
NameSorted(m) == \A i, j \in DOMAIN m : i < j => m[i].name < m[j].name
InputsSorted == NameSorted(c0) /\ NameSorted(diff.nvg)
Finished == diff.pc = "done"
Scanned == diff.pc \in {"apply", "done"}

\* The rows of the current model, as the call found it, whose name occurs in
\* the next model with equal type name and code.
UnchangedRows ==
    { i \in DOMAIN c0 :
        \E j \in DOMAIN diff.nvg : is_equal_property(c0[i], diff.nvg[j]) }

OnlyOld == RowNames(c0) \ RowNames(diff.nvg)
OnlyNew == RowNames(diff.nvg) \ RowNames(c0)
BothDiffer ==
    { i \in DOMAIN c0 :
        \E j \in DOMAIN diff.nvg :
            /\ c0[i].name = diff.nvg[j].name
            /\ Content(c0[i]) # Content(diff.nvg[j]) }

\* C1: for name-sorted inputs with unique names the call does not abort and,
\* once it has returned, the current model has the length of the next model
\* and the same name, type name and code at every index.
C1_ResultMatchesNew ==
    InputsSorted =>
        /\ diff.pc # "panic"
        /\ Finished =>
            /\ Len(diff.cvg) = Len(diff.nvg)
            /\ \A i \in DOMAIN diff.nvg : Content(diff.cvg[i]) = Content(diff.nvg[i])

\* A finished call that inserted, updated and removed rows.
C1_Witness ==
    /\ InputsSorted /\ Finished /\ run = 1
    /\ \E i, j, l \in DOMAIN diff.applied :
         /\ diff.applied[i].op = "Insert"
         /\ diff.applied[j].op = "Copy"
         /\ diff.applied[l].op = "Remove"

\* C2: a row of the current model whose name occurs in the next model with
\* equal type name and code is never overwritten or removed, and is the same
\* row object of the current model after the call.
C2_UnchangedRowsKept ==
    InputsSorted =>
        \A i \in UnchangedRows :
            /\ c0[i].obj \notin diff.touched
            /\ Finished => \E j \in DOMAIN diff.cvg : diff.cvg[j] = c0[i]

C2_Witness ==
    /\ InputsSorted /\ Finished /\ run = 1
    /\ UnchangedRows # {}
    /\ diff.touched # {}
    /\ \E i \in DOMAIN diff.applied : diff.applied[i].op = "Insert"

\* C3: the number of edits issued is the number of names only in old, plus
\* the names only in new, plus the names in both whose type name or code
\* differs; no name that is in both is removed or inserted.
C3_MinimalEdits ==
    (InputsSorted /\ Scanned) =>
        /\ Len(diff.to_do) =
             Cardinality(OnlyOld) + Cardinality(OnlyNew) + Cardinality(BothDiffer)
        /\ \A i \in DOMAIN diff.to_do :
             /\ diff.to_do[i].op = "Remove" => diff.to_do[i].name \in OnlyOld
             /\ diff.to_do[i].op \in {"Insert", "PushBack"}
                    => diff.to_do[i].name \in OnlyNew

C3_Witness ==
    /\ InputsSorted /\ Finished /\ run = 1
    /\ OnlyOld # {} /\ OnlyNew # {} /\ BothDiffer # {}
    /\ UnchangedRows # {}

\* C4: a call whose next model equals the current one row by row issues no
\* edit and leaves the current model as it is; and the second of two calls
\* with the same next model issues no edit.
C4_Idempotent ==
    Scanned =>
        /\ Contents(c0) = Contents(diff.nvg) =>
             /\ diff.to_do = <<>>
             /\ diff.cvg = c0
        /\ run > 1 => diff.to_do = <<>>

C4_Witness ==
    /\ Finished /\ run = 2
    /\ Len(diff.nvg) = MaxName
    /\ \E i \in DOMAIN c0 : c0[i].obj[1] = "c"
    /\ \E i \in DOMAIN c0 : c0[i].obj[1] = "n"

\* C5: the edits are issued in strictly ascending order of the name of the
\* row they are for, and replayed in that order, each on the row it was
\* issued for; the input of test_property_date_update gives insert aab,
\* insert abb, update bbb, remove ccc, remove eee and the rows aaa, aab, abb,
\* bbb (changed), ddd.
C5_AscendingEdits ==
    InputsSorted =>
        /\ \A i, j \in DOMAIN diff.to_do : i < j => diff.to_do[i].name < diff.to_do[j].name
        /\ Len(diff.applied) = diff.k
        /\ \A i \in DOMAIN diff.applied :
             /\ diff.applied[i].name = diff.to_do[i].name
             /\ diff.applied[i].op = diff.to_do[i].op
        /\ (Finished /\ c0 = TestCurrent /\ diff.nvg = TestNext) =>
             /\ diff.applied = << [op |-> "Insert", name |-> 2],
                                  [op |-> "Insert", name |-> 3],
                                  [op |-> "Copy", name |-> 4],
                                  [op |-> "Remove", name |-> 5],
                                  [op |-> "Remove", name |-> 7] >>
             /\ Contents(diff.cvg) = Contents(TestNext)

C5_Witness ==
    /\ Finished /\ c0 = TestCurrent /\ diff.nvg = TestNext
    /\ Len(diff.applied) = 5

-----------------------------------------------------------------------------
(* The runtime value flattener: langtype::Type, slint_interpreter::Value    *)
(* and map_value_and_type.  A type is a record with its variant in t; a     *)
(* struct type lists its fields in the order s.fields.iter() yields them.   *)
(* A value is a record with its variant in k; NoValue is Option::None.      *)

Ty(t) == [t |-> t]
ArrayTy(sty) == [t |-> "Array", of |-> sty]
StructTy(fields) == [t |-> "Struct", fields |-> fields]
Field(nm, ty) == [name |-> nm, ty |-> ty]

NoValue == [k |-> "None"]
BoolV(b) == [k |-> "Bool", b |-> b]
NumberV(n) == [k |-> "Number", n |-> n]
StringV(str) == [k |-> "String", s |-> str]
StructV(f) == [k |-> "Struct", fields |-> f]
ModelV(items) == [k |-> "Model", items |-> items]
\* Value::Brush of a solid color, the color as the digits rrggbbaa
ColorV(hex) == [k |-> "Brush", color |-> hex]

\* get_value::<T>: the value converted to T, or T::default()
get_bool(v) == IF v.k = "Bool" THEN v.b ELSE FALSE
get_number(v) == IF v.k = "Number" THEN v.n ELSE 0
get_string(v) == IF v.k = "String" THEN v.s ELSE ""
get_color(v) == IF v.k = "Brush" THEN v.color ELSE "00000000"
get_model(v) == IF v.k = "Model" THEN v.items ELSE <<>>
get_field(v, f) ==
    IF v.k = "Struct" /\ f \in DOMAIN v.fields THEN v.fields[f] ELSE NoValue

\* get_code: the JSON rendering of the value ("" for None); the white space
\* of the pretty printer is left out.
RECURSIVE Json(_)
RECURSIVE JsonItems(_)
RECURSIVE JsonFields(_, _)
Json(v) ==
    CASE v.k = "Bool" -> IF v.b THEN "true" ELSE "false"
      [] v.k = "Number" -> ToString(v.n)
      [] v.k = "String" -> "\"" \o v.s \o "\""
      [] v.k = "Brush" -> "\"#" \o v.color \o "\""
      [] v.k = "Model" -> "[" \o JsonItems(v.items) \o "]"
      [] v.k = "Struct" -> "{" \o JsonFields(v.fields, DOMAIN v.fields) \o "}"
      [] OTHER -> ""
JsonItems(items) ==
    IF items = <<>> THEN ""
    ELSE Json(Head(items))
         \o (IF Len(items) > 1 THEN "," ELSE "") \o JsonItems(Tail(items))
JsonFields(f, names) ==
    IF names = {} THEN ""
    ELSE LET nm == CHOOSE x \in names : TRUE
         IN "\"" \o nm \o "\":" \o Json(f[nm])
            \o (IF names # {nm} THEN "," ELSE "") \o JsonFields(f, names \ {nm})

get_code(v) == IF v.k = "None" THEN "" ELSE Json(v)

\* unit_model: a model of unit names allocated by this call; rc tells one
\* allocation from another.  NoModel is ModelRc::default().
NoModel == [units |-> <<>>, rc |-> 0]
unit_model(units, rc) == [units |-> units, rc |-> rc]

PropertyValue(kind, vb, vi, vf, vs, cd, items, sel) ==
    [kind |-> kind, value_bool |-> vb, value_int |-> vi, value_float |-> vf,
     value_string |-> vs, code |-> cd, visual_items |-> items,
     default_selection |-> sel]

LengthUnits == <<"px", "cm", "mm", "in", "pt", "phx", "rem">>
AngleUnits == <<"deg", "grad", "turn", "rad">>

ScalarTypes ==
    {"Float32", "Int32", "Duration", "PhysicalLength", "LogicalLength", "Rem",
     "Angle", "Percent", "String", "Color", "Bool"}
TodoTypes ==
    {"Image", "Model", "PathData", "Easing", "Brush", "Enumeration", "UnitProduct"}

\* The value pushed by the arm of a scalar type, and by the arm "_"
ScalarValue(t, v, rc) ==
    CASE t = "Float32" ->
           PropertyValue("Float", FALSE, 0, get_number(v), ToString(get_number(v)),
                         get_code(v), NoModel, 0)
      [] t = "Int32" ->
           PropertyValue("Integer", FALSE, get_number(v), 0, ToString(get_number(v)),
                         get_code(v), NoModel, 0)
      [] t = "Duration" ->
           PropertyValue("Float", FALSE, 0, get_number(v), ToString(get_number(v)) \o "ms",
                         get_code(v), unit_model(<<"s", "ms">>, rc), 1)
      [] t \in {"PhysicalLength", "LogicalLength", "Rem"} ->
           PropertyValue("Float", FALSE, 0, get_number(v), ToString(get_number(v)) \o "px",
                         get_code(v), unit_model(LengthUnits, rc), 0)
      [] t = "Angle" ->
           PropertyValue("Float", FALSE, 0, get_number(v), ToString(get_number(v)) \o "deg",
                         get_code(v), unit_model(AngleUnits, rc), 0)
      [] t = "Percent" ->
           PropertyValue("Float", FALSE, 0, get_number(v), ToString(get_number(v)) \o "%",
                         get_code(v), unit_model(<<"%">>, rc), 0)
      [] t = "String" ->
           PropertyValue("String", FALSE, 0, 0, get_string(v), get_code(v), NoModel, 0)
      [] t = "Color" ->
           PropertyValue("Color", FALSE, 0, 0, "#" \o get_color(v), get_code(v), NoModel, 0)
      [] t = "Bool" ->
           PropertyValue("Boolean", get_bool(v), 0, 0,
                         IF get_bool(v) THEN "true" ELSE "false", get_code(v), NoModel, 0)
      [] OTHER ->
           PropertyValue("Code", FALSE, 0, 0, "???", get_code(v), NoModel, 0)

JsonValue(v) == PropertyValue("Code", FALSE, 0, 0, "", get_code(v), NoModel, 0)

\* ValueMapping::default() with a name prefix.  aborted is set when the
\* mapping ran into a todo!().
ValueMapping(prefix, rc) ==
    [name_prefix |-> prefix, is_too_complex |-> FALSE, is_array |-> FALSE,
     header |-> <<>>, current_values |-> <<>>, array_values |-> <<>>,
     aborted |-> FALSE, rc |-> rc]

\* Lines 1033-1035: the values move into the single row-group
TakeCurrentValues(m) ==
    IF m.array_values = <<>>
    THEN [m EXCEPT !.array_values = <<m.current_values>>, !.current_values = <<>>]
    ELSE m

\* Mutant: the JSON value is added to what was built so far.
BackOut_KeepBuilt(m, v) ==
    IF m.is_too_complex
    THEN [m EXCEPT !.is_array = FALSE,
                   !.header = Append(@, ""),
                   !.array_values = Append(@, <<JsonValue(v)>>)]
    ELSE m

\* Lines 1037-1047: back out into the JSON value
BackOut(m, v) ==
    IF m.is_too_complex
    THEN [m EXCEPT !.is_array = FALSE,
                   !.header = <<"">>,
                   !.array_values = << <<JsonValue(v)>> >>]
    ELSE m

FieldPrefix(m, f) ==
    IF m.name_prefix = "" THEN f ELSE m.name_prefix \o "." \o f

RECURSIVE map_value_and_type(_, _, _)
RECURSIVE MapElements(_, _, _)
RECURSIVE MapFields(_, _, _)

\* The closure of the Array arm, run on the elements of the model in order:
\* the header is taken from an element while it is empty, and the element's
\* current_values become its row-group.
MapElements(sty, items, m) ==
    IF items = <<>> \/ m.aborted THEN m
    ELSE LET sm == map_value_and_type(sty, Head(items), ValueMapping("", m.rc))
             m1 == [m EXCEPT !.header = IF @ = <<>> THEN sm.header ELSE @,
                             !.array_values = Append(@, sm.current_values),
                             !.aborted = sm.aborted]
         IN MapElements(sty, Tail(items), m1)

\* The loop of the Struct arm over the fields
MapFields(fields, v, m) ==
    IF fields = <<>> \/ m.aborted THEN m
    ELSE LET f == Head(fields)
             sm == map_value_and_type(f.ty, get_field(v, f.name),
                                      ValueMapping(FieldPrefix(m, f.name), m.rc))
             m1 == [m EXCEPT !.header = @ \o sm.header,
                             !.current_values = @ \o sm.current_values,
                             !.is_too_complex = @ \/ sm.is_too_complex \/ sm.is_array,
                             !.is_array = FALSE,
                             !.aborted = sm.aborted]
         IN MapFields(Tail(fields), v, m1)

\* Mutant: an element type that is an array does not make the array too complex.
ArrayArm_ArrayElementsKept(ty, v, m) ==
    LET sm == map_value_and_type(ty.of, NoValue, ValueMapping(m.name_prefix, m.rc))
        m1 == [m EXCEPT !.is_too_complex = @ \/ sm.is_too_complex,
                        !.is_array = TRUE,
                        !.aborted = sm.aborted]
    IN IF m1.aborted \/ m1.is_too_complex THEN m1
       ELSE LET m2 == [m1 EXCEPT !.current_values = @ \o sm.current_values]
                m3 == MapElements(ty.of, get_model(v), [m2 EXCEPT !.array_values = <<>>])
            IN m3

ArrayArm(ty, v, m) ==
    LET sm == map_value_and_type(ty.of, NoValue, ValueMapping(m.name_prefix, m.rc))
        m1 == [m EXCEPT !.is_too_complex = @ \/ sm.is_too_complex \/ sm.is_array,
                        !.is_array = TRUE,
                        !.aborted = sm.aborted]
    IN IF m1.aborted \/ m1.is_too_complex THEN m1
       ELSE LET m2 == [m1 EXCEPT !.current_values = @ \o sm.current_values]
                m3 == MapElements(ty.of, get_model(v), [m2 EXCEPT !.array_values = <<>>])
            IN m3

StructArm(ty, v, m) == MapFields(ty.fields, v, m)

ScalarArm(ty, v, m) ==
    [m EXCEPT !.header = Append(@, m.name_prefix),
              !.current_values = Append(@, ScalarValue(ty.t, v, m.rc))]

map_value_and_type(ty, v, m) ==
    LET m1 == CASE ty.t \in TodoTypes -> [m EXCEPT !.aborted = TRUE]
                [] ty.t = "Array" -> ArrayArm(ty, v, m)
                [] ty.t = "Struct" -> StructArm(ty, v, m)
                [] OTHER -> ScalarArm(ty, v, m)
    IN IF m1.aborted THEN m1 ELSE BackOut(TakeCurrentValues(m1), v)

\* runtime_properties::RuntimeProperty, the input of map_runtime_property
RuntimeInput(nm, ty, v, isprop, getter, setter) ==
    [name |-> nm, ty |-> ty, value |-> v, is_property |-> isprop,
     has_getter |-> getter, has_setter |-> setter]

\* map_runtime_property: None for a callback, "aborted" when the mapping hit
\* a todo!(), else the RuntimeProperty of the UI.
\* Lines 1078-1089
RuntimeProperty(rp, mapping) ==
    IF mapping.aborted THEN [res |-> "aborted"]
    ELSE [res |-> "Some",
          name |-> rp.name,
          has_getter |-> rp.has_getter,
          has_setter |-> rp.has_setter,
          prefer_json |-> mapping.is_too_complex,
          is_array |-> mapping.is_array,
          header |-> mapping.header,
          array_values |-> mapping.array_values]

map_runtime_property(rp, rc) ==
    IF ~rp.is_property THEN [res |-> "None"]
    ELSE RuntimeProperty(rp, map_value_and_type(rp.ty, rp.value, ValueMapping("", rc)))

-----------------------------------------------------------------------------
(* Inputs of the flattener: the types of the tests (a struct of scalars, a  *)
(* struct of structs, arrays of scalars and of structs, a struct with an    *)
(* array), arrays of arrays, the scalar types, types whose arm is todo!()   *)
(* and a type of the arm "_", each with the values of that type.            *)

FooStruct == StructTy(<<Field("bar", Ty("Bool")), Field("count", Ty("Int32"))>>)
C1Struct == StructTy(<<Field("c1-1", Ty("String")), Field("c1-2", Ty("Int32"))>>)
C2Struct == StructTy(<<Field("c2-1", Ty("String")), Field("c2-2", Ty("Int32"))>>)
StructOfStructs == StructTy(<<Field("first", C1Struct), Field("second", C2Struct)>>)
StructWithArray ==
    StructTy(<<Field("count", Ty("Int32")), Field("first", ArrayTy(Ty("String")))>>)

RuntimeTypes ==
    { Ty(t) : t \in ScalarTypes \cup {"Brush", "Image", "Enumeration", "ComponentFactory"} }
    \cup { FooStruct, StructOfStructs, StructWithArray,
           StructTy(<<Field("inner", StructWithArray)>>),
           StructTy(<<Field("fill", Ty("Brush")), Field("on", Ty("Bool"))>>),
           ArrayTy(Ty("Bool")), ArrayTy(Ty("Duration")), ArrayTy(FooStruct),
           ArrayTy(ArrayTy(Ty("Bool"))), ArrayTy(StructWithArray),
           ArrayTy(Ty("Brush")) }

RECURSIVE SeqsUpTo(_, _)
SeqsUpTo(S, n) ==
    IF n = 0 THEN {<<>>}
    ELSE LET shorter == SeqsUpTo(S, n - 1)
         IN shorter \cup { Append(q, x) : q \in shorter, x \in S }

\* The models of arrays or of structs with an array field hold at most one
\* element, the other models up to MaxArrayLen elements
HoldsArray(ty) ==
    \/ ty.t = "Array"
    \/ ty.t = "Struct" /\ \E f \in DOMAIN ty.fields : ty.fields[f].ty.t = "Array"
ModelLen(ty) == IF HoldsArray(ty.of) THEN 1 ELSE MaxArrayLen

RECURSIVE ValuesOf(_)
RECURSIVE StructValues(_)
\* The field maps of a struct with these fields
StructValues(fields) ==
    IF fields = <<>> THEN { <<>> }
    ELSE { (Head(fields).name :> x) @@ rest :
             x \in ValuesOf(Head(fields).ty), rest \in StructValues(Tail(fields)) }
ValuesOf(ty) ==
    CASE ty.t = "Bool" -> {BoolV(TRUE), BoolV(FALSE)}
      [] ty.t = "String" -> {StringV("x"), StringV("")}
      [] ty.t = "Color" -> {ColorV("ff0000ff")}
      [] ty.t \in ScalarTypes -> {NumberV(0), NumberV(23)}
      [] ty.t = "Array" -> { ModelV(q) : q \in SeqsUpTo(ValuesOf(ty.of), ModelLen(ty)) }
      [] ty.t = "Struct" -> { StructV(f) : f \in StructValues(ty.fields) }
      [] OTHER -> {[k |-> "Opaque"]}

Visibilities == {<<TRUE, TRUE>>, <<FALSE, TRUE>>, <<TRUE, FALSE>>}

RuntimeInputs ==
    UNION { { RuntimeInput("test", ty, v, TRUE, vis[1], vis[2]) :
                v \in ValuesOf(ty) \cup {NoValue}, vis \in Visibilities } :
            ty \in RuntimeTypes }

\* A callback of the query result: map_runtime_property returns None for it
CallbackInputs ==
    { RuntimeInput("clicked", Ty("Callback"), NoValue, FALSE, FALSE, FALSE) }

InitMap ==
    /\ \E rp \in RuntimeInputs \cup CallbackInputs : mp = [pc |-> "input", rp |-> rp]
    /\ DiffIdle /\ RuntimeIdle /\ UiIdle /\ SimplifyIdle /\ TableIdle

\* map_runtime_property on a property
MapProperty ==
    /\ mp.pc = "input" /\ mp.rp.is_property
    /\ mp' = [pc |-> "mapped", rp |-> mp.rp, out |-> map_runtime_property(mp.rp, 1)]
    /\ UNCHANGED <<diff, c0, run, rt, ui, sv, tbl>>

\* map_runtime_property on a callback
MapCallback ==
    /\ mp.pc = "input" /\ ~mp.rp.is_property
    /\ mp' = [pc |-> "mapped", rp |-> mp.rp, out |-> map_runtime_property(mp.rp, 1)]
    /\ UNCHANGED <<diff, c0, run, rt, ui, sv, tbl>>

NextMap == MapProperty \/ MapCallback

SpecMap == InitMap /\ [][NextMap]_vars

Mapped == mp.pc = "mapped" /\ mp.out.res = "Some"

\* C9: every row-group of array_values has as many values as the header has
\* column names.
C9_RowsMatchHeader ==
    Mapped =>
        \A g \in DOMAIN mp.out.array_values :
            Len(mp.out.array_values[g]) = Len(mp.out.header)

\* C10: a property returned with prefer_json is not an array, has the header
\* [""] and one row-group with one value, of kind Code, whose code is the
\* JSON rendering of the whole value.
C10_PreferJsonShape ==
    (Mapped /\ mp.out.prefer_json) =>
        /\ ~mp.out.is_array
        /\ mp.out.header = <<"">>
        /\ Len(mp.out.array_values) = 1
        /\ Len(mp.out.array_values[1]) = 1
        /\ mp.out.array_values[1][1].kind = "Code"
        /\ mp.out.array_values[1][1].code = get_code(mp.rp.value)

\* A struct whose array field made it too complex after a column was built
C10_Witness ==
    /\ Mapped /\ mp.out.prefer_json
    /\ mp.rp.ty = StructWithArray
    /\ mp.rp.value.k = "Struct"
    /\ Len(mp.rp.value.fields["first"].items) = MaxArrayLen

-----------------------------------------------------------------------------
(* ui_set_runtime_properties.  A table of runtime components is a record    *)
(* with the components and obj, the identity of the model object; a         *)
(* component carries obj as well.  An object made during the n-th call has  *)
(* the identity n; so have the unit models allocated by that call.          *)

\* fill_component: None (here <<>>) when no property is left
\* filter_map: the properties map_runtime_property returns
FilterSome(r) == IF r.res = "Some" THEN <<r>> ELSE <<>>

RECURSIVE MapProperties(_, _)
MapProperties(properties, rc) ==
    IF properties = <<>> THEN <<>>
    ELSE FilterSome(map_runtime_property(Head(properties), rc))
         \o MapProperties(Tail(properties), rc)

RuntimeComponent(component_name, component_id, kept, rc) ==
    IF kept = <<>> THEN <<>>
    ELSE << [component_name |-> component_name, component_id |-> component_id,
             properties |-> kept, obj |-> rc] >>

fill_component(component_name, component_id, properties, rc) ==
    RuntimeComponent(component_name, component_id, MapProperties(properties, rc), rc)

\* Lines 1099-1130: the components of the query, Main first
RuntimeResult(query, rc) ==
    fill_component("<MAIN>", "", query.main, rc)
    \o fill_component("Global", "Global", query.global, rc)

is_value_equal(o, n) == o = n

\* The positions a zip of two models visits: those both have
Zip(a, b) == 1..(IF Len(a) < Len(b) THEN Len(a) ELSE Len(b))

is_semantic_equal(o, n) ==
    IF \/ o.name # n.name
       \/ o.has_getter # n.has_getter
       \/ o.has_setter # n.has_setter
       \/ o.is_array # n.is_array
       \/ o.prefer_json # n.prefer_json
    THEN FALSE
    ELSE IF Len(o.header) # Len(n.header) THEN FALSE
    ELSE IF \E h \in Zip(o.header, n.header) : o.header[h] # n.header[h] THEN FALSE
    ELSE IF Len(o.array_values) # Len(n.array_values) THEN FALSE
    ELSE \A g \in Zip(o.array_values, n.array_values) :
            LET oav == o.array_values[g]
                nav == n.array_values[g]
            IN /\ Len(oav) = Len(nav)
               /\ \A v \in Zip(oav, nav) : is_value_equal(oav[v], nav[v])

\* Mutant: the property counts of the two components are not compared.
ComponentMismatch_NameOnly(oc, nc) == oc.component_name # nc.component_name

\* Lines 1192-1193
ComponentMismatch(oc, nc) ==
    \/ oc.component_name # nc.component_name
    \/ Len(oc.properties) # Len(nc.properties)

\* The state of update_model: the old components as patched so far, the
\* positions set_row_data was called on, and whether it returns the new model.
RECURSIVE UpdateProperties(_, _, _, _)
RECURSIVE UpdateComponents(_, _, _)

\* Lines 1197-1205, from the property of index i - 1 of component c on
UpdateProperties(um, nc, c, i) ==
    LET ops == um.old[c].properties
    IN IF i > Len(ops) \/ i > Len(nc.properties) THEN um
       ELSE IF ops[i].name # nc.properties[i].name
       THEN [um EXCEPT !.replace = TRUE]
       ELSE IF ~is_semantic_equal(ops[i], nc.properties[i])
       THEN UpdateProperties(
                [um EXCEPT !.old[c].properties[i] = nc.properties[i],
                           !.patched = @ \cup {<<c, i>>}],
                nc, c, i + 1)
       ELSE UpdateProperties(um, nc, c, i + 1)

\* Lines 1191-1206, from the component of index c - 1 on
UpdateComponents(um, new, c) ==
    IF um.replace \/ c > Len(um.old) \/ c > Len(new) THEN um
    ELSE IF ComponentMismatch(um.old[c], new[c]) THEN [um EXCEPT !.replace = TRUE]
    ELSE UpdateComponents(UpdateProperties(um, new[c], c, 1), new, c + 1)

update_model(old_model, new_model) ==
    IF Len(old_model) # Len(new_model)
    THEN [old |-> old_model, patched |-> {}, replace |-> TRUE]
    ELSE UpdateComponents([old |-> old_model, patched |-> {}, replace |-> FALSE],
                          new_model, 1)

\* The whole of ui_set_runtime_properties.  before, result, patched and
\* old_after record the call: the displayed components before it, the
\* projection of the query, the rows set_row_data was called on, and what
\* the model object displayed before the call holds after it.
\* Lines 1211-1213
SetRuntimeComponents(st, result, um) ==
    [pc |-> "ready",
     calls |-> st.calls + 1,
     table |-> IF um.replace THEN [components |-> result, obj |-> st.calls + 1]
               ELSE [components |-> um.old, obj |-> st.table.obj],
     before |-> st.table,
     result |-> result,
     patched |-> um.patched,
     old_after |-> um.old,
     replaced |-> um.replace]

UpdateRuntimeComponents(st, result) ==
    SetRuntimeComponents(st, result, update_model(st.table.components, result))

ui_set_runtime_properties(st, query) ==
    UpdateRuntimeComponents(st, RuntimeResult(query, st.calls + 1))

\* The properties a query holds for a component: p as a bool, read-only or
\* not, or as a duration, q as a bool or as an array, and a callback
QueryProperties ==
    { RuntimeInput("p", Ty("Bool"), BoolV(TRUE), TRUE, TRUE, TRUE),
      RuntimeInput("p", Ty("Bool"), BoolV(FALSE), TRUE, TRUE, TRUE),
      RuntimeInput("p", Ty("Duration"), NumberV(23), TRUE, TRUE, TRUE),
      RuntimeInput("q", Ty("Bool"), BoolV(TRUE), TRUE, TRUE, FALSE),
      RuntimeInput("q", ArrayTy(Ty("Bool")), ModelV(<<BoolV(TRUE)>>), TRUE, TRUE, TRUE) }
    \cup CallbackInputs

RuntimeQueries ==
    [main : SeqsUpTo(QueryProperties, 2),
     global : {<<>>, <<RuntimeInput("p", Ty("Bool"), BoolV(TRUE), TRUE, TRUE, TRUE)>>}]

InitRuntime ==
    /\ rt = [pc |-> "ready", calls |-> 0,
             table |-> [components |-> <<>>, obj |-> 0],
             before |-> [components |-> <<>>, obj |-> 0],
             result |-> <<>>, patched |-> {}, old_after |-> <<>>,
             replaced |-> FALSE]
    /\ DiffIdle /\ MapIdle /\ UiIdle /\ SimplifyIdle /\ TableIdle

\* A call that installs the projection of the query
SetRuntimeReplace ==
    /\ rt.calls < MaxCalls
    /\ \E query \in RuntimeQueries : rt' = ui_set_runtime_properties(rt, query)
    /\ rt'.replaced
    /\ UNCHANGED <<diff, c0, run, mp, ui, sv, tbl>>

\* A call that keeps the displayed model and patches its rows
SetRuntimePatch ==
    /\ rt.calls < MaxCalls
    /\ \E query \in RuntimeQueries : rt' = ui_set_runtime_properties(rt, query)
    /\ ~rt'.replaced
    /\ UNCHANGED <<diff, c0, run, mp, ui, sv, tbl>>

NextRuntime == SetRuntimeReplace \/ SetRuntimePatch

SpecRuntime == InitRuntime /\ [][NextRuntime]_vars

-----------------------------------------------------------------------------
(* Properties of ui_set_runtime_properties.                                 *)

Called == rt.pc = "ready" /\ rt.calls > 0
OldComponents == rt.before.components

\* The two tables differ in component count or, at some position, in the
\* component name, the property count or the name of a property.
Incompatible(old, new) ==
    \/ Len(old) # Len(new)
    \/ \E c \in DOMAIN old \cap DOMAIN new :
         \/ old[c].component_name # new[c].component_name
         \/ Len(old[c].properties) # Len(new[c].properties)
         \/ \E i \in DOMAIN old[c].properties \cap DOMAIN new[c].properties :
              old[c].properties[i].name # new[c].properties[i].name

\* What the UI renders of a value and of a property: the unit names of
\* visual_items, not the model object that holds them.
RenderedValue(v) == [v EXCEPT !.visual_items = @.units]
RenderedProperty(q) ==
    [name |-> q.name, has_getter |-> q.has_getter, has_setter |-> q.has_setter,
     is_array |-> q.is_array, prefer_json |-> q.prefer_json, header |-> q.header,
     array_values |->
        [g \in DOMAIN q.array_values |->
            [v \in DOMAIN q.array_values[g] |-> RenderedValue(q.array_values[g][v])]]]

\* C7: when the old and the new table differ in component count, or at some
\* position in component name, property count or the name of a property, the
\* displayed table after the call is the new projection, a new model object.
C7_IncompatibleReplaced ==
    (Called /\ Incompatible(OldComponents, rt.result)) =>
        rt.table = [components |-> rt.result, obj |-> rt.calls]

\* A table of as many components replaced because of what a component holds
C7_Witness ==
    /\ Called /\ Incompatible(OldComponents, rt.result)
    /\ OldComponents # <<>>
    /\ Len(OldComponents) = Len(rt.result)
    /\ \A c \in DOMAIN rt.result :
         OldComponents[c].component_name = rt.result[c].component_name

\* C8: when the tables are compatible the table object and the component
\* objects are kept, set_row_data is called on exactly the properties whose
\* rendered content differs from the new one, the others are the rows they
\* were, and afterwards every property renders as its new counterpart.
C8_PatchOnlyChanged ==
    (Called /\ ~Incompatible(OldComponents, rt.result)) =>
        /\ rt.table.obj = rt.before.obj
        /\ Len(rt.table.components) = Len(OldComponents)
        /\ \A c \in DOMAIN OldComponents :
             /\ rt.table.components[c].obj = OldComponents[c].obj
             /\ \A i \in DOMAIN OldComponents[c].properties :
                  LET o == OldComponents[c].properties[i]
                      n == rt.result[c].properties[i]
                      now == rt.table.components[c].properties[i]
                  IN /\ <<c, i>> \in rt.patched
                          <=> RenderedProperty(o) # RenderedProperty(n)
                     /\ <<c, i>> \notin rt.patched => now = o
                     /\ RenderedProperty(now) = RenderedProperty(n)

-----------------------------------------------------------------------------
(* ui_set_properties.  A query result holds the element and its properties; *)
(* map_properties_to_ui projects it into the element information and a      *)
(* table of groups.  Group names, like row names, are numbers standing for  *)
(* their rank in string order.  The obj of a table is the identity of the   *)
(* model object: a table made by a call gets an obj other than that of the  *)
(* table displayed when the call began.                                     *)

ElementInformation(id, ty, uri, version, start, end) ==
    [id |-> id, type_name |-> ty, source_uri |-> uri, source_version |-> version,
     range |-> [start |-> start, end |-> end]]

\* Lines 1299-1305
PlaceholderElement == ElementInformation("", "", "", 0, 0, 0)

\* Mutant: the source version is part of the identity of an element.
is_equal_element_AndVersion(c, n) ==
    /\ c.id = n.id
    /\ c.type_name = n.type_name
    /\ c.source_uri = n.source_uri
    /\ c.source_version = n.source_version
    /\ c.range.start = n.range.start

is_equal_element(c, n) ==
    /\ c.id = n.id
    /\ c.type_name = n.type_name
    /\ c.source_uri = n.source_uri
    /\ c.range.start = n.range.start

\* properties::PropertyInformation, as far as map_properties_to_ui reads it;
\* code is the text of the expression the property is defined with.
QueryProperty(nm, group, group_priority, priority, ty, cd) ==
    [name |-> nm, group |-> group, group_priority |-> group_priority,
     priority |-> priority, type_name |-> ty, code |-> cd]

\* Lines 674-679: the row of a property
UiRow(pi) ==
    [name |-> pi.name, type_name |-> pi.type_name, code |-> pi.code,
     display_priority |-> pi.priority, obj |-> <<"n", 0>>]

\* Lines 708-712
RowBefore(a, b) ==
    \/ a.display_priority < b.display_priority
    \/ a.display_priority = b.display_priority /\ a.name < b.name

\* Mutant: the keys are compared by group name first.
KeyBefore_NameFirst(a, b) == a[1] < b[1] \/ (a[1] = b[1] /\ a[2] < b[2])

\* Lines 685-689
KeyBefore(a, b) == a[2] < b[2] \/ (a[2] = b[2] /\ a[1] < b[1])

\* sort_by is stable: a row goes behind the rows that are not after it
RECURSIVE InsertRow(_, _)
InsertRow(sorted, r) ==
    IF sorted = <<>> THEN <<r>>
    ELSE IF RowBefore(r, Head(sorted)) THEN <<r>> \o sorted
    ELSE <<Head(sorted)>> \o InsertRow(Tail(sorted), r)

RECURSIVE SortRows(_)
SortRows(v) ==
    IF v = <<>> THEN <<>> ELSE InsertRow(SortRows(SubSeq(v, 1, Len(v) - 1)), v[Len(v)])

\* Lines 640-648, 650-681: the rows pushed to the group of a key, in input order
RECURSIVE GroupRows(_, _)
GroupRows(pis, key) ==
    IF pis = <<>> THEN <<>>
    ELSE (IF <<Head(pis).group, Head(pis).group_priority>> = key
          THEN <<UiRow(Head(pis))>> ELSE <<>>)
         \o GroupRows(Tail(pis), key)

GroupKeys(pis) == { <<pis[i].group, pis[i].group_priority>> : i \in DOMAIN pis }

\* Lines 683-691
RECURSIVE SortedKeys(_)
SortedKeys(keys) ==
    IF keys = {} THEN <<>>
    ELSE LET k == CHOOSE x \in keys : \A y \in keys : x = y \/ KeyBefore(x, y)
         IN <<k>> \o SortedKeys(keys \ {k})

PropertyGroup(pis, key) ==
    [group_name |-> key[1], properties |-> SortRows(GroupRows(pis, key))]

PropertyGroups(pis, keys) == [g \in DOMAIN keys |-> PropertyGroup(pis, keys[g])]

\* map_properties_to_ui: None when there is no query result, no element, or
\* the source uri does not parse
map_properties_to_ui(query) ==
    IF query.kind # "valid" THEN [res |-> "None"]
    ELSE [res |-> "Some",
          element |-> query.element,
          groups |-> PropertyGroups(query.properties, SortedKeys(GroupKeys(query.properties)))]

\* Lines 1297-1308
NextElement(m) == IF m.res = "Some" THEN m.element ELSE PlaceholderElement
NextGroups(m) == IF m.res = "Some" THEN m.groups ELSE <<>>

\* update_properties.  The state of its loop: the groups of the current
\* model as diffed so far, and whether a debug assertion or the differ
\* aborted the call.
DebugFails(debug, ok) == debug /\ ~ok

DiffedGroup(up, g, d) ==
    IF d.pc = "panic" THEN [up EXCEPT !.panic = TRUE]
    ELSE [up EXCEPT !.groups[g].properties = d.cvg]

RECURSIVE UpdateGroups(_, _, _, _)
UpdateGroups(up, next, g, debug) ==
    IF up.panic \/ g > Len(up.groups) \/ g > Len(next) THEN up
    ELSE IF DebugFails(debug, up.groups[g].group_name = next[g].group_name)
    THEN [up EXCEPT !.panic = TRUE]
    ELSE UpdateGroups(
             DiffedGroup(up, g, update_grouped_properties(up.groups[g].properties,
                                                          next[g].properties)),
             next, g + 1, debug)

update_properties(current, next, debug) ==
    IF DebugFails(debug, Len(current) = Len(next))
    THEN [groups |-> current, panic |-> TRUE]
    ELSE UpdateGroups([groups |-> current, panic |-> FALSE], next, 1, debug)

\* A model object other than the displayed one
FreshObj(st) == 1 - st.properties.obj

\* Line 1315, 1319 and 1322: the next model is installed
InstallNext(st, next_element, next_groups) ==
    [st EXCEPT !.properties = [groups |-> next_groups, obj |-> FreshObj(st)],
               !.current_element = next_element]

\* Line 1317 and 1322
UpdateCurrent(st, next_element, up) ==
    IF up.panic
    THEN [st EXCEPT !.properties.groups = up.groups, !.pc = "panic"]
    ELSE [st EXCEPT !.properties.groups = up.groups,
                    !.current_element = next_element]

\* Lines 1313-1322
SetProperties(st, next_element, next_groups) ==
    IF ~is_equal_element(st.current_element, next_element)
    THEN InstallNext(st, next_element, next_groups)
    ELSE IF Len(st.properties.groups) > 0
    THEN UpdateCurrent(st, next_element,
                       update_properties(st.properties.groups, next_groups, st.debug))
    ELSE InstallNext(st, next_element, next_groups)

\* before records what the call found: the current element, the model
\* object displayed and the number of its groups.
Recorded(st) ==
    [st EXCEPT !.called = TRUE,
               !.before = [element |-> st.current_element,
                           obj |-> st.properties.obj,
                           groups |-> Len(st.properties.groups)]]

ProjectedProperties(st, m) == SetProperties(Recorded(st), NextElement(m), NextGroups(m))

ui_set_properties(st, query) == ProjectedProperties(st, map_properties_to_ui(query))

-----------------------------------------------------------------------------
(* Query results: an element, variants of it that differ in one field of    *)
(* its identity, the element after an edit that moved its end (a later      *)
(* source version), each with up to MaxProperties properties in two groups, *)
(* and the results map_properties_to_ui turns down.                         *)

BaseElement == ElementInformation("a", "T", "u", 1, 1, 5)
QueryElements ==
    { BaseElement,
      [BaseElement EXCEPT !.id = "b"],
      [BaseElement EXCEPT !.type_name = "U"],
      [BaseElement EXCEPT !.source_uri = "v"],
      [BaseElement EXCEPT !.range.start = 2],
      [BaseElement EXCEPT !.source_version = 2, !.range.end = 6] }

\* What a query may say of the property of a name: nothing, or its group,
\* priority and code.  The group 1 has the group priority 2, the group 2 the
\* group priority 1; the properties past the second are of the group 1.
PropertyChoices(nm) ==
    IF nm > 2 THEN { <<>>, <<QueryProperty(nm, 1, 2, 1, "T1", "A")>> }
    ELSE { <<>>,
           <<QueryProperty(nm, 1, 2, 1, "T1", "A")>>,
           <<QueryProperty(nm, 1, 2, MaxProperties + 1 - nm, "T1", "B")>>,
           <<QueryProperty(nm, 2, 1, 1, "T1", "A")>> }

RECURSIVE PropertyLists(_)
PropertyLists(n) ==
    IF n = 0 THEN {<<>>}
    ELSE { q \o x : q \in PropertyLists(n - 1), x \in PropertyChoices(n) }

Queries ==
    { [kind |-> "valid", element |-> e, properties |-> q] :
        e \in QueryElements, q \in PropertyLists(MaxProperties) }
    \cup { [kind |-> k] : k \in {"none", "no element", "bad uri"} }

InitUi ==
    /\ \E debug \in BOOLEAN :
         ui = [pc |-> "ready", debug |-> debug, called |-> FALSE,
               current_element |-> PlaceholderElement,
               properties |-> [groups |-> <<>>, obj |-> 0],
               before |-> [element |-> PlaceholderElement, obj |-> 0, groups |-> 0]]
    /\ DiffIdle /\ MapIdle /\ RuntimeIdle /\ SimplifyIdle /\ TableIdle

\* The preview calls ui_set_properties with the result of a query
UiSetProperties ==
    /\ ui.pc = "ready"
    /\ \E query \in Queries : ui' = ui_set_properties(ui, query)
    /\ UNCHANGED <<diff, c0, run, mp, rt, sv, tbl>>

NextUi == UiSetProperties

SpecUi == InitUi /\ [][NextUi]_vars

-----------------------------------------------------------------------------
(* Properties of ui_set_properties *)

UiCalled == ui.pc # "idle" /\ ui.called

\* The identity of an element: its id, type name, source uri and the start
\* of its range
ElementIdentity(e) == <<e.id, e.type_name, e.source_uri, e.range.start>>

TableReplaced == ui.properties.obj # ui.before.obj

\* C6: a call of ui_set_properties replaces the displayed table by the new
\* one exactly when the new element differs from the current one in id, type
\* name, source uri or range start, or the current table has no group;
\* otherwise the table object stays and keeps its groups, only rows change.
C6_ReplacedIffElementDiffers ==
    UiCalled =>
        /\ TableReplaced <=>
               \/ ElementIdentity(ui.before.element) # ElementIdentity(ui.current_element)
               \/ ui.before.groups = 0
        /\ ~TableReplaced => Len(ui.properties.groups) = ui.before.groups

\* A displayed table with a group survived a call for the same element at a
\* later source version with a moved end, and a row of it now has the code B.
C6_Witness ==
    /\ UiCalled /\ ui.pc = "ready"
    /\ ~TableReplaced
    /\ ui.before.groups > 0
    /\ ui.before.element.source_version # ui.current_element.source_version
    /\ ui.before.element.range.end # ui.current_element.range.end
    /\ \E g \in DOMAIN ui.properties.groups :
         \E r \in DOMAIN ui.properties.groups[g].properties :
            ui.properties.groups[g].properties[r].code = "B"

-----------------------------------------------------------------------------
(* Further properties of map_runtime_property *)

IsScalar(ty) == ty.t \in ScalarTypes
IsStructOfScalars(ty) ==
    ty.t = "Struct" /\ \A f \in DOMAIN ty.fields : IsScalar(ty.fields[f].ty)

\* The values an element of a scalar type or of a struct of scalars is
\* displayed with, one per column
ElementValues(ty, v, rc) ==
    IF ty.t = "Struct"
    THEN [f \in DOMAIN ty.fields |->
            ScalarValue(ty.fields[f].ty.t, get_field(v, ty.fields[f].name), rc)]
    ELSE <<ScalarValue(ty.t, v, rc)>>

MappedArray ==
    /\ Mapped
    /\ mp.rp.ty.t = "Array"
    /\ IsScalar(mp.rp.ty.of) \/ IsStructOfScalars(mp.rp.ty.of)

\* C11: an array of scalars or of structs of scalars has one row-group per
\* element of the array, in element order, none for an empty array; each
\* row-group holds the projected values of its element, one per header column.
C11_RowGroupPerElement ==
    MappedArray =>
        /\ Len(mp.out.array_values) = Len(get_model(mp.rp.value))
        /\ \A g \in DOMAIN mp.out.array_values :
             /\ Len(mp.out.array_values[g]) = Len(mp.out.header)
             /\ g \in DOMAIN get_model(mp.rp.value) =>
                  mp.out.array_values[g]
                      = ElementValues(mp.rp.ty.of, get_model(mp.rp.value)[g], 1)

RECURSIVE IsNestedStruct(_)
\* A struct whose fields are scalars or such structs
IsNestedStruct(ty) ==
    /\ ty.t = "Struct"
    /\ \A f \in DOMAIN ty.fields :
         IsScalar(ty.fields[f].ty) \/ IsNestedStruct(ty.fields[f].ty)

RECURSIVE FlatHeader(_, _, _)
\* The column names of the fields from the field f on, under a prefix
FlatHeader(ty, prefix, f) ==
    IF f > Len(ty.fields) THEN <<>>
    ELSE (IF ty.fields[f].ty.t = "Struct"
          THEN FlatHeader(ty.fields[f].ty, prefix \o ty.fields[f].name \o ".", 1)
          ELSE <<prefix \o ty.fields[f].name>>)
         \o FlatHeader(ty, prefix, f + 1)

RECURSIVE FlatValues(_, _, _)
\* The values of the fields from the field f on, in the order of the columns
FlatValues(ty, v, f) ==
    IF f > Len(ty.fields) THEN <<>>
    ELSE (IF ty.fields[f].ty.t = "Struct"
          THEN FlatValues(ty.fields[f].ty, get_field(v, ty.fields[f].name), 1)
          ELSE <<ScalarValue(ty.fields[f].ty.t, get_field(v, ty.fields[f].name), 1)>>)
         \o FlatValues(ty, v, f + 1)

\* C12: a struct of scalars and structs flattens to the header of the dotted
\* field names in field order and one row-group with the values of the
\* fields in the order of the header.
C12_StructFlattened ==
    (Mapped /\ IsNestedStruct(mp.rp.ty)) =>
        /\ mp.out.header = FlatHeader(mp.rp.ty, "", 1)
        /\ mp.out.array_values = << FlatValues(mp.rp.ty, mp.rp.value, 1) >>

RECURSIVE ContainsArray(_)
\* An array type occurs in the type
ContainsArray(ty) ==
    CASE ty.t = "Array" -> TRUE
      [] ty.t = "Struct" -> \E f \in DOMAIN ty.fields : ContainsArray(ty.fields[f].ty)
      [] OTHER -> FALSE

\* An array type occurs strictly inside the type
ArrayInside(ty) ==
    CASE ty.t = "Array" -> ContainsArray(ty.of)
      [] ty.t = "Struct" -> \E f \in DOMAIN ty.fields : ContainsArray(ty.fields[f].ty)
      [] OTHER -> FALSE

\* C13: map_runtime_property returns prefer_json exactly for the types an
\* array type occurs strictly inside of: not for scalars, structs of scalars
\* and structs, and arrays of those.
C13_PreferJsonIffArrayInside ==
    Mapped => (mp.out.prefer_json <=> ArrayInside(mp.rp.ty))

\* An array with an element whose struct type has an array field
C13_Witness ==
    /\ Mapped /\ mp.out.prefer_json
    /\ mp.rp.ty.t = "Array" /\ mp.rp.ty.of.t = "Struct"
    /\ mp.rp.value.k = "Model" /\ mp.rp.value.items # <<>>

\* C14: map_value_and_type returns a result for a property of every type,
\* also of a type with a brush, enumeration, image, model, path data, easing
\* or unit product in it; it never aborts.
C14_FlatteningTotal ==
    (mp.pc = "mapped" /\ mp.rp.is_property) =>
        /\ mp.out.res = "Some"
        /\ mp.out.header # <<>> \/ mp.rp.ty.t \in {"Array", "Struct"}

-----------------------------------------------------------------------------
(* simplify_value.  The expression of a property is a syntax node, a record *)
(* with its kind in n; its default value is an expression of the expression *)
(* tree, a record with its variant in e.  None is Option::None of either.   *)
(* A unit is its suffix, "" for Unit::None; numbers are integers.           *)

None == [some |-> FALSE]

\* Syntax nodes
NumberLiteral(value, unit) ==
    [some |-> TRUE, n |-> "NumberLiteral", value |-> value, unit |-> unit]
UnaryOpExpression(op, expr) ==
    [some |-> TRUE, n |-> "UnaryOpExpression", op |-> op, expr |-> expr]
StringLiteral(text) == [some |-> TRUE, n |-> "StringLiteral", text |-> text]
ColorLiteral(text) == [some |-> TRUE, n |-> "ColorLiteral", text |-> text]
\* A qualified name, the sequence of its identifiers
QualifiedName(ids) == [some |-> TRUE, n |-> "QualifiedName", ids |-> ids]
AtTr(text, context, plural, args) ==
    [some |-> TRUE, n |-> "AtTr", string |-> text, context |-> context,
     plural |-> plural, args |-> args]
\* The unescaped string literal of the node, None when there is none
TrText(text) == [some |-> TRUE, text |-> text]
\* text is None or a TrText, plural is None or a TrPlural
TrPlural(text, count) == [some |-> TRUE, text |-> text, count |-> count]
BinaryExpression == [some |-> TRUE, n |-> "BinaryExpression"]

\* Expressions of the expression tree
NumberValue(value, unit) ==
    [some |-> TRUE, e |-> "NumberLiteral", value |-> value, unit |-> unit]
BoolValue(b) == [some |-> TRUE, e |-> "BoolLiteral", b |-> b]
StringValue(str) == [some |-> TRUE, e |-> "StringLiteral", s |-> str]
EnumerationValue(value) == [some |-> TRUE, e |-> "EnumerationValue", value |-> value]
Cast(from) == [some |-> TRUE, e |-> "Cast", from |-> from]
FunctionCall == [some |-> TRUE, e |-> "FunctionCall"]

\* Type::Enumeration
Enumeration(name, values, default_value) ==
    [t |-> "Enumeration", name |-> name, values |-> values,
     default_value |-> default_value]

\* Lines 472-480
CodeValue(code) ==
    [kind |-> "Code", value_bool |-> FALSE, value_int |-> 0, value_float |-> 0,
     value_string |-> "", code |-> code, visual_items |-> NoModel,
     default_selection |-> 0, is_translatable |-> FALSE, tr_context |-> "",
     tr_plural |-> "", tr_plural_expression |-> "", value_brush |-> "default"]

\* Iterator::position, from 0; -1 when there is none
Position(items, x) ==
    IF \E i \in DOMAIN items : items[i] = x
    THEN (CHOOSE i \in DOMAIN items : items[i] = x /\ \A j \in 1..(i - 1) : items[j] # x) - 1
    ELSE -1

\* QualifiedTypeName::to_string: the identifiers joined by dots
RECURSIVE Dotted(_)
Dotted(ids) ==
    IF ids = <<>> THEN ""
    ELSE IF Len(ids) = 1 THEN ids[1]
    ELSE ids[1] \o "." \o Dotted(Tail(ids))

\* Mutant: the sign of a unary minus is dropped.
Signed_Magnitude(op, r) == r

\* Line 355: the factor of the sign applied
Signed(op, r) ==
    IF r.some /\ op = "-" THEN [r EXCEPT !.value = 0 - @] ELSE r

RECURSIVE convert_number_literal(_)
convert_number_literal(node) ==
    IF node.n = "UnaryOpExpression"
    THEN IF node.op \notin {"-", "+"} THEN None
         ELSE Signed(node.op, convert_number_literal(node.expr))
    ELSE IF node.n = "NumberLiteral"
    THEN [some |-> TRUE, value |-> node.value, unit |-> node.unit]
    ELSE None

FloatResult(v, index) == [some |-> TRUE, kind |-> "Float", v |-> v, index |-> index]

\* Lines 377-382
LiteralWithUnit(lit, units) ==
    IF ~lit.some THEN None
    ELSE IF Position(units, lit.unit) >= 0
    THEN FloatResult(lit.value, Position(units, lit.unit))
    ELSE IF units = <<>> /\ lit.unit = "" THEN FloatResult(lit.value, 0)
    ELSE None

\* Lines 385-391
DefaultWithUnit(def_val, units) ==
    IF def_val.some /\ def_val.e = "NumberLiteral"
    THEN FloatResult(def_val.value,
                     IF Position(units, def_val.unit) >= 0
                     THEN Position(units, def_val.unit) ELSE 0)
    ELSE FloatResult(0, 0)

extract_value_with_unit_impl(expression, def_val, code, units) ==
    IF expression.some THEN LiteralWithUnit(convert_number_literal(expression), units)
    ELSE IF code = "" THEN DefaultWithUnit(def_val, units)
    ELSE None

\* Lines 414-423
WithUnit(r, units, value) ==
    IF ~r.some THEN value
    ELSE [value EXCEPT !.kind = r.kind, !.value_float = r.v,
                       !.visual_items = unit_model(units, 1), !.value_int = r.index]

extract_value_with_unit(expression, def_val, units, value) ==
    WithUnit(extract_value_with_unit_impl(expression, def_val, value.code, units),
             units, value)

\* parse_color_literal: #rgb, #rgba, #rrggbb or #rrggbbaa
ValidColors == {"#10203040", "#f00"}

extract_color(expression, kind, value) ==
    IF expression.n = "ColorLiteral" /\ expression.text \in ValidColors
    THEN [value EXCEPT !.kind = kind, !.value_brush = expression.text,
                       !.value_string = expression.text]
    ELSE value

\* Lines 450-452
Uncast(def_val) ==
    IF def_val.some /\ def_val.e = "Cast" THEN def_val.from ELSE def_val

\* Lines 453-461, for the default value without its cast
DefaultBrush(kind, d, value) ==
    IF d.some /\ d.e = "NumberLiteral"
    THEN [value EXCEPT !.kind = kind, !.value_brush = "argb " \o ToString(d.value)]
    ELSE [value EXCEPT !.kind = kind, !.value_string = "#00000000",
                       !.value_brush = "#00000000"]

set_default_brush(kind, def_val, value) == DefaultBrush(kind, Uncast(def_val), value)

\* Lines 318-333
PluralText(tr_node) == IF tr_node.plural.some THEN tr_node.plural.text ELSE ""
PluralExpression(tr_node) ==
    IF tr_node.plural.some /\ tr_node.plural.count.n = "QualifiedName"
    THEN [some |-> TRUE, text |-> Dotted(tr_node.plural.count.ids)]
    ELSE None

\* Line 336
Translatable(tr_node) ==
    /\ tr_node.args = 0
    /\ PluralText(tr_node) = "" \/ PluralExpression(tr_node).some

extract_tr_data(tr_node, value) ==
    IF ~tr_node.string.some THEN value
    ELSE IF Translatable(tr_node)
    THEN [value EXCEPT !.kind = "String",
                       !.is_translatable = TRUE,
                       !.tr_context = tr_node.context,
                       !.tr_plural = PluralText(tr_node),
                       !.tr_plural_expression =
                            IF PluralExpression(tr_node).some
                            THEN PluralExpression(tr_node).text ELSE "",
                       !.value_string = tr_node.string.text]
    ELSE value

\* Mutant: the unit of the literal is not looked at.
IntegerArm_AnyUnit(expression, value) ==
    IF expression.some
    THEN IF convert_number_literal(expression).some
         THEN [value EXCEPT !.kind = "Integer",
                            !.value_int = convert_number_literal(expression).value]
         ELSE value
    ELSE IF value.code = "" THEN [value EXCEPT !.kind = "Integer"]
    ELSE value

\* Lines 504-515
IntegerArm(expression, value) ==
    IF expression.some
    THEN IF convert_number_literal(expression).some
            /\ convert_number_literal(expression).unit = ""
         THEN [value EXCEPT !.kind = "Integer",
                            !.value_int = convert_number_literal(expression).value]
         ELSE value
    ELSE IF value.code = "" THEN [value EXCEPT !.kind = "Integer"]
    ELSE value

\* Lines 516-533
ColorArm(kind, expression, def_val, value) ==
    IF expression.some THEN extract_color(expression, kind, value)
    ELSE IF value.code = "" THEN set_default_brush(kind, def_val, value)
    ELSE value

\* Lines 534-548
BoolArm(expression, def_val, value) ==
    IF expression.some
    THEN IF expression.n = "QualifiedName" /\ Dotted(expression.ids) \in {"true", "false"}
         THEN [value EXCEPT !.kind = "Boolean",
                            !.value_bool = (Dotted(expression.ids) = "true")]
         ELSE value
    ELSE IF value.code = ""
    THEN [value EXCEPT !.kind = "Boolean",
                       !.value_bool = IF def_val.some /\ def_val.e = "BoolLiteral"
                                      THEN def_val.b ELSE @]
    ELSE value

\* Lines 549-566
StringArm(expression, def_val, value) ==
    IF expression.some
    THEN IF expression.n = "StringLiteral"
         THEN [value EXCEPT !.kind = "String", !.value_string = expression.text]
         ELSE IF expression.n = "AtTr" THEN extract_tr_data(expression, value)
         ELSE value
    ELSE IF value.code = ""
    THEN [value EXCEPT !.kind = "String",
                       !.value_string = IF def_val.some /\ def_val.e = "StringLiteral"
                                        THEN def_val.s ELSE @]
    ELSE value

\* Lines 584-590: the name without the prefix of the enumeration
MemberName(enumeration, ids) ==
    IF Len(ids) > 1 /\ ids[1] = enumeration.name THEN Dotted(Tail(ids)) ELSE Dotted(ids)

\* Mutant: a name that is no member selects the position past the last member.
MemberIndex_PastEnd(enumeration, text) ==
    IF Position(enumeration.values, text) >= 0
    THEN Position(enumeration.values, text) ELSE Len(enumeration.values)

\* Lines 593-598
MemberIndex(enumeration, text) ==
    IF Position(enumeration.values, text) >= 0
    THEN Position(enumeration.values, text) ELSE 0

\* Lines 567-603
EnumerationArm(enumeration, expression, def_val, value) ==
    [value EXCEPT
        !.kind = "Enum",
        !.value_string = enumeration.name,
        !.default_selection = enumeration.default_value,
        !.visual_items = [units |-> enumeration.values, rc |-> 1],
        !.value_int =
            IF expression.some
            THEN IF expression.n = "QualifiedName"
                 THEN MemberIndex(enumeration, MemberName(enumeration, expression.ids))
                 ELSE @
            ELSE IF def_val.some /\ def_val.e = "EnumerationValue"
            THEN def_val.value
            ELSE @]

\* The match of lines 484-605
SimplifyArm(ty, expression, def_val, value) ==
    CASE ty.t = "Float32" -> extract_value_with_unit(expression, def_val, <<>>, value)
      [] ty.t = "Duration" ->
           extract_value_with_unit(expression, def_val, <<"s", "ms">>, value)
      [] ty.t \in {"PhysicalLength", "LogicalLength", "Rem"} ->
           extract_value_with_unit(expression, def_val, LengthUnits, value)
      [] ty.t = "Angle" -> extract_value_with_unit(expression, def_val, AngleUnits, value)
      [] ty.t = "Percent" -> extract_value_with_unit(expression, def_val, <<"%">>, value)
      [] ty.t = "Int32" -> IntegerArm(expression, value)
      [] ty.t = "Color" -> ColorArm("Color", expression, def_val, value)
      [] ty.t = "Brush" -> ColorArm("Brush", expression, def_val, value)
      [] ty.t = "Bool" -> BoolArm(expression, def_val, value)
      [] ty.t = "String" -> StringArm(expression, def_val, value)
      [] ty.t = "Enumeration" -> EnumerationArm(ty, expression, def_val, value)
      [] OTHER -> value

\* properties::PropertyInformation as simplify_value reads it: defined_at is
\* None or holds the text and the expression, None for a code block
Definition(text, expression) == [some |-> TRUE, text |-> text, expression |-> expression]
PropInfo(ty, defined_at, default_value) ==
    [ty |-> ty, defined_at |-> defined_at, default_value |-> default_value]

\* Lines 468-470
ExpressionOf(prop_info) ==
    IF prop_info.defined_at.some THEN prop_info.defined_at.expression ELSE None
\* Lines 473-477
CodeOf(prop_info) == IF prop_info.defined_at.some THEN prop_info.defined_at.text ELSE ""

simplify_value(prop_info) ==
    SimplifyArm(prop_info.ty, ExpressionOf(prop_info), prop_info.default_value,
                CodeValue(CodeOf(prop_info)))

-----------------------------------------------------------------------------
(* Inputs of simplify_value: the types of its arms, two enumerations (the   *)
(* declared default of the second is not its first member) and a type of    *)
(* the arm "_"; number literals under up to MaxSigns unary operators, the   *)
(* other literals, names, @tr nodes and an expression that is none of them. *)

Foobar == Enumeration("Foobar", <<"foo", "bar">>, 0)
Align == Enumeration("Align", <<"start", "center", "end">>, 1)

SimplifyTypes ==
    { Ty(t) : t \in {"Float32", "Duration", "LogicalLength", "Angle", "Percent",
                     "Int32", "Color", "Brush", "Bool", "String", "Image"} }
    \cup {Foobar, Align}

NumberLiterals ==
    { NumberLiteral(v, u) : v \in {0, 42}, u \in {"", "ms", "cm", "rad", "%"} }

RECURSIVE SignedLiterals(_)
SignedLiterals(n) ==
    IF n = 0 THEN NumberLiterals
    ELSE SignedLiterals(n - 1)
         \cup { UnaryOpExpression(op, e) :
                  op \in {"-", "+", "!"}, e \in SignedLiterals(n - 1) }

QualifiedNames ==
    { QualifiedName(ids) :
        ids \in { <<"true">>, <<"false">>, <<"Foobar", "bar">>, <<"bar">>,
                  <<"Foobar", "nope">>, <<"Align", "end">>, <<"end">>,
                  <<"test">>, <<"self", "test">> } }

Plurals ==
    { None,
      TrPlural("{n} strings", QualifiedName(<<"test">>)),
      TrPlural("{n} strings", QualifiedName(<<"self", "test">>)),
      TrPlural("{n} strings", NumberLiteral(15, "")),
      TrPlural("", QualifiedName(<<"test">>)),
      TrPlural("", NumberLiteral(15, "")) }

AtTrs ==
    { AtTr(text, context, plural, args) :
        text \in {TrText("test"), None}, context \in {"", "Context"},
        plural \in Plurals, args \in {0, 1} }

Expressions ==
    SignedLiterals(MaxSigns)
    \cup { StringLiteral("test"), StringLiteral(""),
           ColorLiteral("#10203040"), ColorLiteral("#12"), BinaryExpression }
    \cup QualifiedNames \cup AtTrs

\* No definition, a code block, or an expression
Definitions ==
    { None, Definition("{ return 1; }", None) }
    \cup { Definition("expression", e) : e \in Expressions }

DefaultValues ==
    { None, NumberValue(45, "cm"), NumberValue(7, ""), BoolValue(TRUE),
      StringValue("Ok"), EnumerationValue(1), Cast(NumberValue(255, "")),
      FunctionCall }

PropInfos ==
    { PropInfo(ty, d, dv) : ty \in SimplifyTypes, d \in Definitions, dv \in DefaultValues }

InitSimplify ==
    /\ \E prop_info \in PropInfos : sv = [pc |-> "input", prop_info |-> prop_info]
    /\ DiffIdle /\ MapIdle /\ RuntimeIdle /\ UiIdle /\ TableIdle

Simplify ==
    /\ sv.pc = "input"
    /\ sv' = [pc |-> "simplified", prop_info |-> sv.prop_info,
              value |-> simplify_value(sv.prop_info)]
    /\ UNCHANGED <<diff, c0, run, mp, rt, ui, tbl>>

NextSimplify == Simplify

SpecSimplify == InitSimplify /\ [][NextSimplify]_vars

-----------------------------------------------------------------------------
(* Properties of simplify_value *)

Simplified == sv.pc = "simplified"
SvType == sv.prop_info.ty
SvExpression == ExpressionOf(sv.prop_info)
SvDefault == sv.prop_info.default_value
IsMember(enumeration, ids) ==
    \/ Len(ids) = 1 /\ \E m \in DOMAIN enumeration.values : enumeration.values[m] = ids[1]
    \/ /\ Len(ids) = 2 /\ ids[1] = enumeration.name
       /\ \E m \in DOMAIN enumeration.values : enumeration.values[m] = ids[2]

\* C15: a property of an enumeration type is of kind Enum whatever its
\* expression and default value are; its items are the members of the
\* enumeration in declared order and the selected index is an index of them.
C15_EnumAlwaysValid ==
    (Simplified /\ SvType.t = "Enumeration") =>
        /\ sv.value.kind = "Enum"
        /\ sv.value.visual_items.units = SvType.values
        /\ sv.value.value_int \in 0..(Len(SvType.values) - 1)

\* An enumeration property with a name that is no member of it
C15_Witness ==
    /\ Simplified /\ SvType.t = "Enumeration"
    /\ SvExpression.some /\ SvExpression.n = "QualifiedName"
    /\ ~IsMember(SvType, SvExpression.ids)
    /\ sv.value.kind = "Enum"

\* C16: a qualified or unqualified reference to a member selects the index of
\* the member; no expression (and no default value of the enumeration), or an
\* expression that names no member, selects the declared default index.
C16_MemberOrDeclaredDefault ==
    (Simplified /\ SvType.t = "Enumeration") =>
        /\ (SvExpression.some /\ SvExpression.n = "QualifiedName"
              /\ IsMember(SvType, SvExpression.ids)) =>
                 SvType.values[sv.value.value_int + 1]
                     = SvExpression.ids[Len(SvExpression.ids)]
        /\ (SvExpression.some
              /\ ~(SvExpression.n = "QualifiedName" /\ IsMember(SvType, SvExpression.ids))) =>
                 sv.value.value_int = SvType.default_value
        /\ (~sv.prop_info.defined_at.some
              /\ ~(SvDefault.some /\ SvDefault.e = "EnumerationValue")) =>
                 sv.value.value_int = SvType.default_value

\* The unit list of a numeric type
UnitList(t) ==
    CASE t = "Float32" -> <<>>
      [] t = "Duration" -> <<"s", "ms">>
      [] t \in {"PhysicalLength", "LogicalLength", "Rem"} ->
           <<"px", "cm", "mm", "in", "pt", "phx", "rem">>
      [] t = "Angle" -> <<"deg", "grad", "turn", "rad">>
      [] t = "Percent" -> <<"%">>
      [] OTHER -> <<>>

NumericTypes ==
    {"Float32", "Duration", "PhysicalLength", "LogicalLength", "Rem", "Angle", "Percent"}

RECURSIVE IsSignedLiteral(_)
\* A number literal under signs
IsSignedLiteral(e) ==
    \/ e.n = "NumberLiteral"
    \/ e.n = "UnaryOpExpression" /\ e.op \in {"-", "+"} /\ IsSignedLiteral(e.expr)

RECURSIVE LiteralOf(_)
LiteralOf(e) == IF e.n = "NumberLiteral" THEN e ELSE LiteralOf(e.expr)

RECURSIVE Minuses(_)
Minuses(e) ==
    IF e.n = "NumberLiteral" THEN 0
    ELSE Minuses(e.expr) + (IF e.op = "-" THEN 1 ELSE 0)

SignedValue(e) ==
    IF Minuses(e) % 2 = 1 THEN 0 - LiteralOf(e).value ELSE LiteralOf(e).value

UnitAccepted(units, u) ==
    (\E i \in DOMAIN units : units[i] = u) \/ (units = <<>> /\ u = "")

\* C17: for a numeric type and a number literal under signs the value is a
\* Float of the signed magnitude, with the index of the unit of the literal
\* in the unit list of the type (0 for the empty list and no unit); when the
\* unit is not accepted or the expression is no such literal it is Code.
C17_SignedLiteralWithUnit ==
    (Simplified /\ SvType.t \in NumericTypes /\ SvExpression.some) =>
        IF IsSignedLiteral(SvExpression)
           /\ UnitAccepted(UnitList(SvType.t), LiteralOf(SvExpression).unit)
        THEN /\ sv.value.kind = "Float"
             /\ sv.value.value_float = SignedValue(SvExpression)
             /\ \/ UnitList(SvType.t) = <<>> /\ sv.value.value_int = 0
                \/ /\ sv.value.value_int + 1 \in DOMAIN UnitList(SvType.t)
                   /\ UnitList(SvType.t)[sv.value.value_int + 1]
                          = LiteralOf(SvExpression).unit
        ELSE sv.value.kind = "Code"

\* A duration of MaxSigns minus signs before 42ms
C17_Witness ==
    /\ Simplified /\ SvType.t = "Duration" /\ SvExpression.some
    /\ IsSignedLiteral(SvExpression)
    /\ Minuses(SvExpression) = MaxSigns
    /\ LiteralOf(SvExpression) = NumberLiteral(42, "ms")
    /\ sv.value.kind = "Float" /\ sv.value.value_int = 1

\* C18: a @tr expression of a string property becomes a translatable String,
\* with its context, plural text and the text of the plural count, only when
\* it has no arguments and the count of its plural form, if it has one, is a
\* qualified name; every other @tr expression is Code, not translatable,
\* with empty translation fields.
C18_TrOnlyWithNamedCount ==
    (Simplified /\ SvType.t = "String" /\ SvExpression.some /\ SvExpression.n = "AtTr") =>
        IF sv.value.kind = "String"
        THEN /\ SvExpression.args = 0
             /\ SvExpression.plural.some => SvExpression.plural.count.n = "QualifiedName"
             /\ sv.value.is_translatable
             /\ sv.value.tr_context = SvExpression.context
             /\ SvExpression.plural.some =>
                  /\ sv.value.tr_plural = SvExpression.plural.text
                  /\ sv.value.tr_plural_expression = Dotted(SvExpression.plural.count.ids)
        ELSE /\ sv.value.kind = "Code"
             /\ ~sv.value.is_translatable
             /\ sv.value.tr_context = "" /\ sv.value.tr_plural = ""
             /\ sv.value.tr_plural_expression = "" /\ sv.value.value_string = ""

\* The kind of the values of a type
TypedKind(t) ==
    CASE t \in NumericTypes -> "Float"
      [] t = "Int32" -> "Integer"
      [] t = "Bool" -> "Boolean"
      [] t = "String" -> "String"
      [] t = "Color" -> "Color"
      [] t = "Brush" -> "Brush"
      [] t = "Enumeration" -> "Enum"
      [] OTHER -> "Code"

IsNumberDefault == SvDefault.some /\ SvDefault.e = "NumberLiteral"
IsColorDefault == Uncast(SvDefault).some /\ Uncast(SvDefault).e = "NumberLiteral"

\* C19: a property with no expression and no source text has the kind of its
\* type, never Code, with the value of its default value when that is a
\* literal of the kind, and else 0, false, the empty string, transparent
\* black or the declared default of the enumeration.
C19_DefaultOrZero ==
    (Simplified /\ ~sv.prop_info.defined_at.some /\ TypedKind(SvType.t) # "Code") =>
        /\ sv.value.kind = TypedKind(SvType.t)
        /\ SvType.t \in NumericTypes =>
             /\ sv.value.value_float = IF IsNumberDefault THEN SvDefault.value ELSE 0
             /\ (IsNumberDefault /\ UnitAccepted(UnitList(SvType.t), SvDefault.unit)
                   /\ UnitList(SvType.t) # <<>>) =>
                      UnitList(SvType.t)[sv.value.value_int + 1] = SvDefault.unit
             /\ ~IsNumberDefault => sv.value.value_int = 0
        /\ SvType.t = "Int32" =>
             sv.value.value_int
                 = IF IsNumberDefault /\ SvDefault.unit = "" THEN SvDefault.value ELSE 0
        /\ SvType.t = "Bool" =>
             sv.value.value_bool
                 = IF SvDefault.some /\ SvDefault.e = "BoolLiteral" THEN SvDefault.b ELSE FALSE
        /\ SvType.t = "String" =>
             sv.value.value_string
                 = IF SvDefault.some /\ SvDefault.e = "StringLiteral" THEN SvDefault.s ELSE ""
        /\ SvType.t \in {"Color", "Brush"} =>
             sv.value.value_brush
                 = IF IsColorDefault THEN "argb " \o ToString(Uncast(SvDefault).value)
                   ELSE "#00000000"
        /\ SvType.t = "Enumeration" =>
             sv.value.value_int
                 = IF SvDefault.some /\ SvDefault.e = "EnumerationValue"
                   THEN SvDefault.value ELSE SvType.default_value

-----------------------------------------------------------------------------
(* map_properties_to_ui on its own: query results whose properties come in  *)
(* any order, with any combination of group, group priority and priority.   *)

TableProperties(nm) ==
    { QueryProperty(nm, g, gp, pr, "T1", "A") : g \in 1..2, gp \in 1..2, pr \in 1..2 }

RECURSIVE TablePropertyLists(_)
\* The lists with at most one property of each of the names in S, in any order
TablePropertyLists(S) ==
    {<<>>} \cup UNION { { <<x>> \o q : x \in TableProperties(nm),
                                       q \in TablePropertyLists(S \ {nm}) } : nm \in S }

TableQueries ==
    { [kind |-> "valid", element |-> BaseElement, properties |-> q] :
        q \in TablePropertyLists(1..MaxProperties) }
    \cup { [kind |-> k] : k \in {"none", "no element", "bad uri"} }

InitTable ==
    /\ \E query \in TableQueries : tbl = [pc |-> "query", query |-> query]
    /\ DiffIdle /\ MapIdle /\ RuntimeIdle /\ UiIdle /\ SimplifyIdle

\* map_properties_to_ui returns a table
MapToUi ==
    /\ tbl.pc = "query" /\ tbl.query.kind = "valid"
    /\ tbl' = [pc |-> "mapped", query |-> tbl.query, out |-> map_properties_to_ui(tbl.query)]
    /\ UNCHANGED <<diff, c0, run, mp, rt, ui, sv>>

\* map_properties_to_ui returns None
MapToUiNone ==
    /\ tbl.pc = "query" /\ tbl.query.kind # "valid"
    /\ tbl' = [pc |-> "mapped", query |-> tbl.query, out |-> map_properties_to_ui(tbl.query)]
    /\ UNCHANGED <<diff, c0, run, mp, rt, ui, sv>>

NextTable == MapToUi \/ MapToUiNone

SpecTable == InitTable /\ [][NextTable]_vars

TableMapped == tbl.pc = "mapped" /\ tbl.out.res = "Some"

\* The places of the table a property of the query is found at: a row of
\* its name, in a group of its group name whose rows are all of properties
\* with its group name and group priority
PlacesOf(pi) ==
    { <<g, r>> \in (DOMAIN tbl.out.groups) \X (1..MaxProperties) :
        /\ r \in DOMAIN tbl.out.groups[g].properties
        /\ tbl.out.groups[g].properties[r].name = pi.name }

KeyOfGroup(g) ==
    { <<pi.group, pi.group_priority>> :
        pi \in { tbl.query.properties[i] : i \in
                   { j \in DOMAIN tbl.query.properties :
                       \E r \in DOMAIN tbl.out.groups[g].properties :
                          tbl.out.groups[g].properties[r].name
                              = tbl.query.properties[j].name } } }

\* (display priority, name) and (group priority, group name) ascend
RowsAscend(a, b) ==
    <<a.display_priority, a.name>> # <<b.display_priority, b.name>>
    /\ a.display_priority <= b.display_priority
    /\ (a.display_priority = b.display_priority => a.name < b.name)
KeysAscend(k1, k2) == k1 # k2 /\ k1[2] <= k2[2] /\ (k1[2] = k2[2] => k1[1] < k2[1])

\* C20: the groups of a table of map_properties_to_ui ascend by (group
\* priority, group name), the rows of a group by (display priority, name),
\* and every property of the query is in exactly one group, that of its
\* group name and group priority.
C20_TableSorted ==
    TableMapped =>
        /\ \A g \in DOMAIN tbl.out.groups :
             /\ \E k \in KeyOfGroup(g) :
                  KeyOfGroup(g) = {k} /\ tbl.out.groups[g].group_name = k[1]
             /\ \A r1, r2 \in DOMAIN tbl.out.groups[g].properties :
                  r1 < r2 => RowsAscend(tbl.out.groups[g].properties[r1],
                                        tbl.out.groups[g].properties[r2])
        /\ \A g1, g2 \in DOMAIN tbl.out.groups :
             g1 < g2 => \A k1 \in KeyOfGroup(g1), k2 \in KeyOfGroup(g2) : KeysAscend(k1, k2)
        /\ \A i \in DOMAIN tbl.query.properties :
             /\ Cardinality(PlacesOf(tbl.query.properties[i])) = 1
             /\ \A pl \in PlacesOf(tbl.query.properties[i]) :
                  tbl.out.groups[pl[1]].properties[pl[2]].display_priority
                      = tbl.query.properties[i].priority

\* Two groups of one name, the properties given against the order of the rows
C20_Witness ==
    /\ TableMapped
    /\ Len(tbl.out.groups) = 2
    /\ tbl.out.groups[1].group_name = tbl.out.groups[2].group_name
    /\ Len(tbl.query.properties) = MaxProperties
    /\ tbl.query.properties[1].name > tbl.query.properties[2].name

-----------------------------------------------------------------------------
(* Further properties of simplify_value *)

LiteralTypes == {"Int32", "Bool", "Color", "Brush", "String"}

\* C21: with an expression, an int property is Integer only for a number
\* literal under signs without unit, a bool property Boolean only for the
\* name true or false, a color or brush property Color or Brush only for a
\* color literal, a string property String only for a string literal or a
\* @tr; every other expression gives Code, and the code is the source text
\* of the expression in every case.
C21_TypedOnlyForLiterals ==
    (Simplified /\ SvExpression.some /\ SvType.t \in LiteralTypes) =>
        /\ sv.value.code = sv.prop_info.defined_at.text
        /\ sv.value.kind \in {"Code", TypedKind(SvType.t)}
        /\ SvType.t = "Int32" =>
             IF IsSignedLiteral(SvExpression) /\ LiteralOf(SvExpression).unit = ""
             THEN sv.value.kind = "Integer"
                  /\ sv.value.value_int = SignedValue(SvExpression)
             ELSE sv.value.kind = "Code"
        /\ SvType.t = "Bool" =>
             IF SvExpression.n = "QualifiedName"
                /\ SvExpression.ids \in {<<"true">>, <<"false">>}
             THEN sv.value.kind = "Boolean"
                  /\ (sv.value.value_bool <=> SvExpression.ids = <<"true">>)
             ELSE sv.value.kind = "Code"
        /\ SvType.t \in {"Color", "Brush"} =>
             /\ sv.value.kind # "Code" =>
                  SvExpression.n = "ColorLiteral" /\ sv.value.value_string = SvExpression.text
             /\ SvExpression = ColorLiteral("#10203040") => sv.value.kind # "Code"
        /\ SvType.t = "String" =>
             /\ sv.value.kind = "String" => SvExpression.n \in {"StringLiteral", "AtTr"}
             /\ SvExpression.n = "StringLiteral" =>
                  sv.value.kind = "String" /\ sv.value.value_string = SvExpression.text

\* An int property with a literal that has a unit, under a sign
C21_Witness ==
    /\ Simplified /\ SvType.t = "Int32" /\ SvExpression.some
    /\ SvExpression.n = "UnaryOpExpression" /\ SvExpression.op = "-"
    /\ IsSignedLiteral(SvExpression) /\ LiteralOf(SvExpression).unit = "cm"
    /\ sv.value.kind = "Code" /\ sv.value.code # ""

-----------------------------------------------------------------------------
(* Further properties of ui_set_runtime_properties *)

\* C22: a call that ends with the replacement of the table has not called
\* set_row_data on a property of the old table: the old components are as
\* the call found them.
C22_CheckBeforePatch ==
    (Called /\ rt.replaced) =>
        /\ rt.patched = {}
        /\ rt.old_after = OldComponents

-----------------------------------------------------------------------------
(* Further properties of ui_set_properties *)

\* The call with the projection m takes the branch of line 1316: the element
\* is the current one and the current table has a group
DiffPath(st, m) ==
    /\ is_equal_element(st.current_element, NextElement(m))
    /\ Len(st.properties.groups) > 0

GroupNames(groups) == [g \in DOMAIN groups |-> groups[g].group_name]

\* C23: in every reachable state, a call of ui_set_properties that takes the
\* diff path finds as many groups in the next table as in the current one,
\* with the same group name at every position.
C23_DiffPathSameGroups ==
    ui.pc = "ready" =>
        \A query \in Queries :
            DiffPath(ui, map_properties_to_ui(query)) =>
                GroupNames(ui.properties.groups)
                    = GroupNames(NextGroups(map_properties_to_ui(query)))

\* What the preview shows of a table: the names of its groups in order and
\* the name, type name and code of the rows of every group in order
Displayed(groups) ==
    [g \in DOMAIN groups |->
        [group_name |-> groups[g].group_name,
         rows |-> Contents(groups[g].properties)]]

\* The state st, reached by a call with the projection m, shows m
ShowsProjection(st, m) ==
    /\ st.pc = "ready"
    /\ Displayed(st.properties.groups) = Displayed(NextGroups(m))
    /\ st.current_element = NextElement(m)

\* C24: after every call of ui_set_properties, whatever the calls before it,
\* the displayed table has the groups of the projection of the query of the
\* call, in its order, with the same rows (name, type name, code) in the same
\* order, and the stored current element is the element of that query, or
\* the placeholder.
C24_ShowsMostRecentQuery ==
    ui.pc = "ready" =>
        \A query \in Queries :
            ShowsProjection(ui_set_properties(ui, query), map_properties_to_ui(query))

-----------------------------------------------------------------------------
(* Further properties of update_grouped_properties *)

\* The scan issued an in-place update for the row of the name nm
UpdateIssued(nm) ==
    \E e \in DOMAIN diff.to_do :
        diff.to_do[e].op = "Copy" /\ diff.to_do[e].name = nm

\* C25: for a row of the current model and a row of the next model with the
\* same name, the scan issues an in-place update exactly when their codes
\* differ; a difference in the type name alone causes no update.
C25_UpdateIffCodeDiffers ==
    (InputsSorted /\ Scanned) =>
        \A i \in DOMAIN c0, j \in DOMAIN diff.nvg :
            c0[i].name = diff.nvg[j].name =>
                (UpdateIssued(c0[i].name) <=> c0[i].code # diff.nvg[j].code)

-----------------------------------------------------------------------------
(* The header of an array property *)

\* Line 975-977: the header of the element type flattened with no value
PrototypeHeader(ty) ==
    map_value_and_type(ty.of, NoValue, ValueMapping("", 1)).header

\* C26: the header of an array property that is not too complex is the
\* header of the prototype, whatever the array holds; an empty array has the
\* whole prototype header.
C26_ArrayHeaderIsPrototype ==
    (Mapped /\ mp.rp.ty.t = "Array" /\ ~mp.out.prefer_json) =>
        mp.out.header = PrototypeHeader(mp.rp.ty)

-----------------------------------------------------------------------------
(* The tables of map_properties_to_ui as inputs of update_grouped_properties *)

\* C27: the rows of every group of a table of map_properties_to_ui, which
\* update_properties hands to update_grouped_properties, are in strictly
\* ascending order of their names, also when their display priorities differ.
C27_GroupRowsNameSorted ==
    TableMapped =>
        \A g \in DOMAIN tbl.out.groups : NameSorted(tbl.out.groups[g].properties)

-----------------------------------------------------------------------------
(* update_grouped_properties on any two models: the rows of a group of up   *)
(* to MaxProperties properties in any order of their names, a name possibly *)
(* more than once.  The rows of the next model vary in their code.          *)

AnyRow(choice, side, i) ==
    PropertyInformation(choice[1], "T1", choice[2], <<side, i>>)

AnyRows(side, codes) ==
    { [i \in DOMAIN q |-> AnyRow(q[i], side, i - 1)] :
        q \in SeqsUpTo(Names \X codes, MaxProperties) }

InitAny ==
    /\ \E cvg \in AnyRows("c", {"A"}), nvg \in AnyRows("n", Codes) :
         /\ diff = DiffStart(cvg, nvg)
         /\ c0 = cvg
    /\ run = 1
    /\ MapIdle /\ RuntimeIdle /\ UiIdle /\ SimplifyIdle /\ TableIdle

\* One call of update_grouped_properties
NextAny ==
    \/ ScanBreak \/ ScanRemoveRest \/ ScanRemove \/ ScanInsert \/ ScanEqual
    \/ ScanPushBack \/ ReplayInsert \/ ReplayCopy \/ ReplayPushBack
    \/ ReplayRemove \/ ReplayEnd

SpecAny == InitAny /\ [][NextAny]_vars

\* The loops of the call are sequential code that runs to its end
SpecAnyLive == SpecAny /\ WF_vars(NextAny)

\* The current model as the edits issued so far leave it
Edited(st) == DiffRun([st EXCEPT !.pc = "apply"])

\* The consumed prefix of the next model followed by the unconsumed suffix
\* of the current model
PrefixThenSuffix(st) ==
    Contents(SubSeq(st.nvg, 1, st.n_index))
        \o Contents(SubSeq(st.cvg, st.c_it + 1, Len(st.cvg)))

\* C28: for any two models, also unsorted and with repeated names, the call
\* ends with a current model of the length of the next model and with the
\* same name, type name and code at every index; during the scan, while the
\* current model is not exhausted, c_index equals n_index, and the current
\* model as edited so far is the consumed prefix of the next model followed
\* by the unconsumed suffix of the current model.
C28_ConvergesForAnyInput ==
    /\ Finished =>
         /\ Len(diff.cvg) = Len(diff.nvg)
         /\ \A i \in DOMAIN diff.nvg : Content(diff.cvg[i]) = Content(diff.nvg[i])
    /\ Scanning =>
         /\ CpSome(diff) => diff.c_index = diff.n_index
         /\ Edited(diff).pc = "done"
         /\ Contents(Edited(diff).cvg) = PrefixThenSuffix(diff)

\* A finished call on models that are not sorted by name, with a name twice
\* in the next model, that inserted, pushed back, updated and removed rows
C28_Witness ==
    /\ Finished
    /\ ~NameSorted(c0) /\ ~NameSorted(diff.nvg)
    /\ \E i, j \in DOMAIN diff.nvg : i # j /\ diff.nvg[i].name = diff.nvg[j].name
    /\ \E i, j \in DOMAIN diff.applied :
         /\ diff.applied[i].op \in {"Insert", "Copy"}
         /\ diff.applied[j].op \in {"Remove", "PushBack"}

\* The edit o addresses a position of the current model and a row of the
\* next model
ValidEdit(st, o) ==
    CASE o.op = "Insert" -> o.c <= Len(st.cvg) /\ HasRow(st.nvg, o.n)
      [] o.op = "Copy" -> HasRow(st.cvg, o.c) /\ HasRow(st.nvg, o.n)
      [] o.op = "PushBack" -> HasRow(st.nvg, o.n)
      [] o.op = "Remove" -> HasRow(st.cvg, o.c)

\* C29: for any two models, every edit of the replay addresses a valid
\* position when it is applied (an insert at most the length, an update or a
\* removal below the length of the current model) and an index of the next
\* model that is in range: no unwrap fails and no edit is dropped.
C29_EditsInRange ==
    /\ diff.pc # "panic"
    /\ Replaying => ValidEdit(diff, NextOp(diff))
    /\ \A i \in DOMAIN diff.applied : diff.applied[i].op # "Dropped"

\* A replay on unsorted models is about to remove the last row of the
\* current model after an insert
C29_Witness ==
    /\ Replaying
    /\ ~NameSorted(c0) /\ ~NameSorted(diff.nvg)
    /\ NextOp(diff).op = "Remove"
    /\ NextOp(diff).c = Len(diff.cvg) - 1
    /\ \E i \in DOMAIN diff.applied : diff.applied[i].op = "Insert"

\* Every iteration of the scan consumed a row of a model, and there are no
\* more iterations and no more edits than rows in the two models
ScanBounded ==
    /\ diff.iters <= diff.c_it + diff.n_it
    /\ diff.c_it <= Len(c0) /\ diff.n_it <= Len(diff.nvg)
    /\ diff.iters <= Len(c0) + Len(diff.nvg)
    /\ Len(diff.to_do) <= diff.iters
    /\ diff.k <= Len(diff.to_do)

\* C30: the call terminates for any two models; every iteration of the scan
\* consumes at least one row of the current or of the next model, so that
\* there are at most |old| + |new| iterations and edits.
C30_Terminates == []ScanBounded /\ <>Finished

\* A finished call that took |old| + |new| iterations and edits
C30_Witness ==
    /\ Finished
    /\ Len(c0) = MaxProperties /\ Len(diff.nvg) = MaxProperties
    /\ diff.iters = Len(c0) + Len(diff.nvg)
    /\ Len(diff.applied) = diff.iters

=============================================================================
